---- MODULE Spec2Model ----
\* Backup lifecycle of localrivet/datasaver: the GFS rotator
\* (internal/rotation), the backup engine (internal/backup/engine.go) and
\* the cron scheduler (internal/backup/scheduler.go).
\*
\* Time is counted in seconds since 2032-02-01T00:00:00Z, a Sunday that is
\* also the first day of a month; 2032-03-01, day 29, is a Monday.
EXTENDS Integers, Sequences, FiniteSets, TLC

\* ---------------------------------------------------------------------------
\* Bounds of the model
\* ---------------------------------------------------------------------------
MaxBackups == 3
MaxKeep == 2
MaxAgeBound == 1
MaxDay == 29
MaxRuns == 2
MaxFaults == 1
MaxJobs == 2
MaxEntries == 2
MaxAttemptsBound == 3
MaxWaitBound == 2
MaxFiles == 2
MaxSize == 1

\* ---------------------------------------------------------------------------
\* Program constants
\* ---------------------------------------------------------------------------
SecondsPerDay == 86400
Sunday == 0
Nil == "<nil>"
ZeroTime == -1
TornTime == -2

VARIABLES
    \* rotation.GFSRotator.DetermineBackupsToDelete
    backups,      \* the argument slice: sequence of [ID, Timestamp]
    policy,       \* rotation.Policy of the rotator
    now,          \* time.Now() read by DetermineBackupsToDelete
    entries,      \* the sorted entries, each [Metadata, Types]
    walk,         \* per entry: the tier counters before and after its turn
    toDelete,     \* the returned slice
    rpc,          \* "input" before the call, "done" after it
    \* backup.Engine and its collaborators
    cfg,          \* config.Config of the engine (immutable)
    storage,      \* storage.Backend: key -> stored object
    clock,        \* the wall clock read by time.Now()
    lastRun,      \* Engine.lastRun
    lastError,    \* Engine.lastError
    nRuns,        \* number of Run calls made so far
    nFaults,      \* number of tolerated faults injected so far
    ret,          \* what the last engine call returned and did
    \* backup.Scheduler, its cron.Cron and the goroutines around them
    running,      \* Scheduler.running
    nextRun,      \* Scheduler.nextRun: ZeroTime until it is set
    mu,           \* who holds Scheduler.mu across steps: "none" or "stop"
    scheduleOK,   \* whether cron accepts the configured schedule
    cronEntries,  \* number of entries added to the cron by AddFunc
    cronRunning,  \* whether the cron is started
    ctlPc,        \* the goroutine calling Start and Stop
    pc,           \* per runner: 0 is the RunNow caller, 1.. are cron jobs
    pending,      \* per runner: the field values its Run is storing
    healthPc,     \* the goroutine serving /health
    healthView,   \* what the health handler read
    \* the callers of the retry wrapper and of the validator
    retry,        \* one call of WithRetry: its arguments, locals and result
    validation,   \* one call of Validator.Validate: its arguments and result
    \* one call of Engine.Run followed statement by statement
    run           \* its position, its outcomes, its resources and its trace

rotVars == <<backups, policy, now, entries, walk, toDelete, rpc>>

engVars == <<cfg, storage, clock, lastRun, lastError, nRuns, nFaults, ret>>

schedVars == <<running, nextRun, mu, scheduleOK, cronEntries, cronRunning,
               ctlPc, pc, pending, healthPc, healthView>>

vars == <<backups, policy, now, entries, walk, toDelete, rpc,
          cfg, storage, clock, lastRun, lastError, nRuns, nFaults, ret,
          running, nextRun, mu, scheduleOK, cronEntries, cronRunning,
          ctlPc, pc, pending, healthPc, healthView,
          retry, validation, run>>

libVars == <<retry, validation, run>>

\* ---------------------------------------------------------------------------
\* time.Time accessors used by the rotator
\* ---------------------------------------------------------------------------
DayIndex(t) == t \div SecondsPerDay

Weekday(t) == DayIndex(t) % 7

\* the lengths of the months from February 2032 on
MonthLengths == <<29, 31, 30, 31, 30, 31, 31, 30, 31, 30, 31, 31>>

RECURSIVE DayInMonth(_, _)
DayInMonth(d, m) ==
    IF d < MonthLengths[m] THEN d + 1
    ELSE DayInMonth(d - MonthLengths[m], (m % 12) + 1)

Day(t) == DayInMonth(DayIndex(t), 1)

AfterMutAscending(a, b) == a < b

\* time.Time.After, the less function handed to sort.Slice
After(a, b) == a > b

\* ---------------------------------------------------------------------------
\* rotation/policy.go
\* ---------------------------------------------------------------------------
NewPolicy(daily, weekly, monthly, maxAgeDays) ==
    [KeepDaily |-> daily, KeepWeekly |-> weekly,
     KeepMonthly |-> monthly, MaxAgeDays |-> maxAgeDays]

ClassifyBackupMutExclusive(t) ==
    <<"daily">> \o
    (IF Day(t) = 1 THEN <<"monthly">>
     ELSE IF Weekday(t) = Sunday THEN <<"weekly">> ELSE <<>>)

ClassifyBackup(t) ==
    <<"daily">> \o
    (IF Weekday(t) = Sunday THEN <<"weekly">> ELSE <<>>) \o
    (IF Day(t) = 1 THEN <<"monthly">> ELSE <<>>)

GetPrimaryType(t) ==
    IF Day(t) = 1 THEN "monthly"
    ELSE IF Weekday(t) = Sunday THEN "weekly"
    ELSE "daily"

CalculateRetentionDate(p, backupTime, backupType) ==
    LET byType == CASE backupType = "monthly" -> p.KeepMonthly * 30
                    [] backupType = "weekly" -> p.KeepWeekly * 7
                    [] backupType = "daily" -> p.KeepDaily
                    [] OTHER -> 0
        retentionDays == IF p.MaxAgeDays > 0 /\ p.MaxAgeDays < byType
                         THEN p.MaxAgeDays ELSE byType
    IN backupTime + retentionDays * SecondsPerDay

\* ---------------------------------------------------------------------------
\* rotation/gfs.go
\* ---------------------------------------------------------------------------
\* The outcomes of sort.Slice(backups, After): every arrangement of the
\* slice in which no element is followed by one with a later timestamp.
\* sort.Slice is not stable, so equal timestamps may come out in any order.
RECURSIVE SortedFrom(_, _)
SortedFrom(bs, I) ==
    IF I = {} THEN {<<>>}
    ELSE UNION {{<<bs[i]>> \o rest : rest \in SortedFrom(bs, I \ {i})} :
                i \in {j \in I : \A k \in I : ~After(bs[k].Timestamp, bs[j].Timestamp)}}

SortedByTimestamp(bs) == SortedFrom(bs, 1..Len(bs))

MakeEntries(bs) ==
    [i \in 1..Len(bs) |-> [Metadata |-> bs[i], Types |-> ClassifyBackup(bs[i].Timestamp)]]

\* One case of the switch: c holds the three counters and shouldKeep.
CountType(c, t, p) ==
    CASE t = "monthly" ->
           IF c.monthlyCount < p.KeepMonthly
           THEN [c EXCEPT !.monthlyCount = @ + 1, !.shouldKeep = TRUE] ELSE c
      [] t = "weekly" ->
           IF c.weeklyCount < p.KeepWeekly
           THEN [c EXCEPT !.weeklyCount = @ + 1, !.shouldKeep = TRUE] ELSE c
      [] t = "daily" ->
           IF c.dailyCount < p.KeepDaily
           THEN [c EXCEPT !.dailyCount = @ + 1, !.shouldKeep = TRUE] ELSE c
      [] OTHER -> c

RECURSIVE CountTypes(_, _, _)
CountTypes(c, types, p) ==
    IF types = <<>> THEN c
    ELSE CountTypes(CountType(c, Head(types), p), Tail(types), p)

\* The first loop over entries: for entry i the counters before its turn
\* and after it (with its shouldKeep).
RECURSIVE WalkEntries(_, _, _, _)
WalkEntries(es, i, c, p) ==
    IF i > Len(es) THEN <<>>
    ELSE LET before == [c EXCEPT !.shouldKeep = FALSE]
             after == CountTypes(before, es[i].Types, p)
         IN <<[before |-> before, after |-> after]>> \o WalkEntries(es, i + 1, after, p)

ZeroCounts == [dailyCount |-> 0, weeklyCount |-> 0, monthlyCount |-> 0, shouldKeep |-> FALSE]

KeepMapMutEmpty(es, w) == {}

\* The keep map: the ids for which shouldKeep was set.
KeepMap(es, w) == {es[i].Metadata.ID : i \in {j \in 1..Len(es) : w[j].after.shouldKeep}}

MaxAgeExceededMutInclusive(age, maxAge) == age >= maxAge

\* age > maxAge
MaxAgeExceeded(age, maxAge) == age > maxAge

FilterEntryMutNoContinue(e, keep, p, t) ==
    (IF e.Metadata.ID \notin keep THEN <<e.Metadata>> ELSE <<>>) \o
    (IF p.MaxAgeDays > 0 /\ MaxAgeExceeded(t - e.Metadata.Timestamp, p.MaxAgeDays * SecondsPerDay)
     THEN <<e.Metadata>> ELSE <<>>)

FilterEntryMutQuotaOnly(e, keep, p, t) ==
    IF e.Metadata.ID \notin keep THEN <<e.Metadata>> ELSE <<>>

\* The body of the second loop: what one entry appends to toDelete.
FilterEntry(e, keep, p, t) ==
    IF e.Metadata.ID \notin keep THEN <<e.Metadata>>
    ELSE IF p.MaxAgeDays > 0
            /\ MaxAgeExceeded(t - e.Metadata.Timestamp, p.MaxAgeDays * SecondsPerDay)
         THEN <<e.Metadata>>
         ELSE <<>>

RECURSIVE FilterEntries(_, _, _, _, _)
FilterEntries(es, i, keep, p, t) ==
    IF i > Len(es) THEN <<>>
    ELSE FilterEntry(es[i], keep, p, t) \o FilterEntries(es, i + 1, keep, p, t)

\* DetermineBackupsToDelete on the already sorted slice.
DeleteFromSorted(sorted, p, t) ==
    LET es == MakeEntries(sorted)
        w == WalkEntries(es, 1, ZeroCounts, p)
    IN FilterEntries(es, 1, KeepMap(es, w), p, t)

\* All results DetermineBackupsToDelete can return for a slice.
DetermineBackupsToDelete(bs, p, t) ==
    IF Len(bs) = 0 THEN {<<>>}
    ELSE {DeleteFromSorted(s, p, t) : s \in SortedByTimestamp(bs)}

GetRetentionInfo(p, backupTime) ==
    [keepUntil |-> CalculateRetentionDate(p, backupTime, GetPrimaryType(backupTime)),
     policy |-> GetPrimaryType(backupTime)]

\* The rotator, the engine and the scheduler at rest
Runners == 0..MaxJobs

NoPending == [lastRun |-> ZeroTime, lastError |-> Nil, ok |-> FALSE]

SchedIdle ==
    /\ running = FALSE
    /\ nextRun = ZeroTime
    /\ mu = "none"
    /\ scheduleOK = TRUE
    /\ cronEntries = 0
    /\ cronRunning = FALSE
    /\ ctlPc = "idle"
    /\ pc = [r \in Runners |-> "idle"]
    /\ pending = [r \in Runners |-> NoPending]
    /\ healthPc = "idle"
    /\ healthView = [lastRun |-> ZeroTime, lastError |-> Nil, nextRun |-> ZeroTime]

\* no call of WithRetry or Validate is made
LibIdle ==
    /\ retry = [pc |-> "idle"]
    /\ validation = [pc |-> "idle"]
    /\ run = [pc |-> "idle"]

RotIdle ==
    /\ backups = <<>>
    /\ now = 0
    /\ entries = <<>>
    /\ walk = <<>>
    /\ toDelete = <<>>
    /\ rpc = "idle"

EngIdle ==
    /\ cfg = [Compression |-> "none", IsSQLite |-> TRUE,
              VerifyAfterBackup |-> FALSE, notifier |-> FALSE]
    /\ storage = <<>>
    /\ clock = 0
    /\ lastRun = ZeroTime
    /\ lastError = Nil
    /\ nRuns = 0
    /\ nFaults = 0
    /\ ret = [op |-> "init"]

\* ---------------------------------------------------------------------------
\* Specification of the rotator: any slice, any policy, one call
\* ---------------------------------------------------------------------------
\* The days backups are dated on: the Sunday and the Monday of every
\* second week up to MaxDay.
SampleDays == {d \in 0..MaxDay : d % 14 < 2}

SampleTimes == {d * SecondsPerDay : d \in SampleDays}

NowTimes == {(MaxDay + 1) * SecondsPerDay, (MaxDay + 1) * SecondsPerDay + 1}

Policies ==
    {NewPolicy(d, w, m, a) : d \in 0..MaxKeep, w \in 0..MaxKeep,
                             m \in 0..MaxKeep, a \in 0..MaxAgeBound}

BackupSlices ==
    UNION {{[i \in 1..n |-> [ID |-> i, Timestamp |-> ts[i]]] : ts \in [1..n -> SampleTimes]}
           : n \in 0..MaxBackups}

RotInit ==
    /\ LibIdle
    /\ backups \in BackupSlices
    /\ policy \in Policies
    /\ now \in NowTimes
    /\ entries = <<>>
    /\ walk = <<>>
    /\ toDelete = <<>>
    /\ rpc = "input"
    /\ EngIdle
    /\ SchedIdle

CallDetermineBackupsToDelete ==
    /\ rpc = "input"
    /\ IF Len(backups) = 0
       THEN /\ entries' = <<>>
            /\ walk' = <<>>
            /\ toDelete' = <<>>
       ELSE \E s \in SortedByTimestamp(backups) :
              /\ entries' = MakeEntries(s)
              /\ walk' = WalkEntries(MakeEntries(s), 1, ZeroCounts, policy)
              /\ toDelete' = DeleteFromSorted(s, policy, now)
    /\ rpc' = "done"
    /\ UNCHANGED <<backups, policy, now, engVars, schedVars, libVars>>

RotNext == CallDetermineBackupsToDelete

SpecRot == RotInit /\ [][RotNext]_vars

\* ---------------------------------------------------------------------------
\* pkg/postgres/metadata.go
\* ---------------------------------------------------------------------------
\* GenerateBackupID formats the start time to the second; the id is modelled
\* by that second.
GenerateBackupID(timestamp) == timestamp

NewBackupMetadata(id, t) ==
    [ID |-> id, Timestamp |-> t, Type |-> "daily",
     Method |-> "pg_dump", Compression |-> "gzip",
     SizeBytes |-> 0, CompressedSize |-> 0, Checksum |-> "",
     Files |-> <<>>, KeepUntil |-> ZeroTime, Policy |-> ""]

AddFile(m, filename) == [m EXCEPT !.Files = Append(@, filename)]

\* json.MarshalIndent of the record / json.Unmarshal of a stored object
ToJSON(m) == [json |-> m]

IsJSON(data) == "json" \in DOMAIN data

ParseMetadata(data) == data.json

\* ---------------------------------------------------------------------------
\* Storage keys
\* ---------------------------------------------------------------------------
MetaSuffix == ".meta.json"

Key(id, suffix) == [id |-> id, suffix |-> suffix]

\* backupID + ".meta.json"
MetaPath(id) == Key(id, MetaSuffix)

\* filepath.Base(finalFile): <id>.sql or <id>.dump, plus .gz under gzip
StoragePath(c, id) ==
    Key(id, (IF c.IsSQLite THEN ".sql" ELSE ".dump")
            \o (IF c.Compression = "gzip" THEN ".gz" ELSE ""))

\* strings.HasSuffix(file.Path, ".meta.json")
HasMetaSuffix(k) == k.suffix = MetaSuffix

\* ---------------------------------------------------------------------------
\* internal/backup/engine.go
\* ---------------------------------------------------------------------------
FailStages ==
    {"driver", "connect", "tmpdir", "create", "dump", "stat", "compress", "open", "write"}

ErrorOf(stage) ==
    CASE stage = "driver" -> "failed to create database driver"
      [] stage = "connect" -> "failed to connect to database"
      [] stage = "tmpdir" -> "failed to create temp directory"
      [] stage = "create" -> "failed to create dump file"
      [] stage = "dump" -> "database dump failed"
      [] stage = "stat" -> "failed to stat dump file"
      [] stage = "compress" -> "compression failed"
      [] stage = "open" -> "failed to open backup file"
      [] stage = "write" -> "failed to write backup to storage"
      [] OTHER -> Nil

\* a nil pointer returned in place of a record
NilRecord == [nil |-> TRUE]

NewResult(id, startTime) ==
    [ID |-> id, Timestamp |-> startTime, Checksum |-> "",
     Verified |-> FALSE, VerifyError |-> Nil, Error |-> Nil]

HandleBackupErrorMutKeepLastError(c, result, oldLastError) ==
    [lastError |-> oldLastError,
     notifications |-> IF c.notifier THEN <<"failure">> ELSE <<>>]

\* handleBackupError: what it stores in lastError and what it notifies
HandleBackupError(c, result, oldLastError) ==
    [lastError |-> result.Error,
     notifications |-> IF c.notifier THEN <<"failure">> ELSE <<>>]

\* Run calls each of its steps directly: a step that fails was tried once
StepAttempts == 1

RecordDoneMutNoLastRun(startTime) == [lastRun |-> ZeroTime, lastError |-> Nil]

\* Done: e.lastRun = startTime; e.lastError = nil
RecordDone(startTime) == [lastRun |-> startTime, lastError |-> Nil]

VerifyNotificationsMutSilent(c, verifyFailed) == <<>>

\* A failed VerifyRestoreIntegrity notifies the failure, if there is a notifier
VerifyNotifications(c, verifyFailed) ==
    IF verifyFailed /\ c.notifier THEN <<"failure">> ELSE <<>>

\* The environment of one Run: the stage that fails ("none" when none does)
\* and the outcomes of the steps whose failure Run tolerates.
RunOutcomes ==
    [fail : FailStages \cup {"none"},
     checksumErr : BOOLEAN, jsonErr : BOOLEAN,
     metaWriteErr : BOOLEAN, verifyErr : BOOLEAN,
     partial : BOOLEAN, dt : 0..1]

\* Outcomes that differ only in steps Run does not reach are the same run.
Canonical(c, o) ==
    /\ (o.fail = "compress" => c.Compression = "gzip")
    /\ (o.fail \in FailStages \ {"open", "write"} => ~o.checksumErr)
    /\ (o.fail # "none" => ~o.jsonErr /\ ~o.metaWriteErr /\ ~o.verifyErr /\ o.dt = 0)
    /\ (o.fail # "write" /\ ~o.metaWriteErr => ~o.partial)
    /\ (o.jsonErr => ~o.metaWriteErr)
    /\ (~c.VerifyAfterBackup => ~o.verifyErr)

\* The outcomes that are canonical under some configuration
CanonicalOutcomes ==
    {o \in RunOutcomes :
        \E c \in [Compression : {"gzip"}, VerifyAfterBackup : {TRUE}] : Canonical(c, o)}

\* The faults of an outcome that Run survives or that leave a trace in storage
FaultCount(o) ==
    (IF o.checksumErr THEN 1 ELSE 0) + (IF o.jsonErr \/ o.metaWriteErr THEN 1 ELSE 0)
    + (IF o.fail = "write" /\ o.partial THEN 1 ELSE 0)

Artifact(id, checksum, whole) == [artifact |-> id, checksum |-> checksum, whole |-> whole]

Put(st, k, v) == [x \in (DOMAIN st) \cup {k} |-> IF x = k THEN v ELSE st[x]]

Remove(st, ks) == [x \in (DOMAIN st) \ ks |-> st[x]]

\* what a Write that failed while copying leaves under the key
PartialObject == [partial |-> TRUE]

PersistMetadataMutWriteAnyway(st, metaPath, m, o) == Put(st, metaPath, ToJSON(m))

\* The record is serialised and written under <id>.meta.json. A failure of
\* either step is only logged; a failed Write leaves the key as it was, or
\* truncated when the copy had begun.
PersistMetadata(st, metaPath, m, o) ==
    IF o.jsonErr THEN st
    ELSE IF o.metaWriteErr
         THEN (IF o.partial THEN Put(st, metaPath, PartialObject) ELSE st)
         ELSE Put(st, metaPath, ToJSON(m))

StorageAfterFailureMutCreateFirst(st, storagePath, a, o) ==
    IF o.fail = "open" \/ (o.fail = "write" /\ o.partial) THEN Put(st, storagePath, a) ELSE st

\* The storage a failed Run leaves: every stage before e.storage.Write
\* returns without a call to the storage; a Write that failed while copying
\* leaves a truncated artifact under the key.
StorageAfterFailure(st, storagePath, a, o) ==
    IF o.fail = "write" /\ o.partial THEN Put(st, storagePath, a) ELSE st

ComputedChecksumMutStale(o) == "sha256"

\* checksum, err := postgres.CalculateChecksum(finalFile): "" with an error
ComputedChecksum(o) == IF o.checksumErr THEN "" ELSE "sha256"

\* Engine.Run under outcome o, started at time t with the engine in state
\* (st, lr, le): the storage, lastRun and lastError it leaves, and the
\* returned result and error.
RunEffect(c, p, st, lr, le, t, o) ==
    LET backupID == GenerateBackupID(t)
        result0 == NewResult(backupID, t)
        checksum == ComputedChecksum(o)
        storagePath == StoragePath(c, backupID)
        metaPath == MetaPath(backupID)
    IN IF o.fail # "none"
       THEN LET result == [result0 EXCEPT
                              !.Error = ErrorOf(o.fail),
                              !.Checksum = IF o.fail \in {"open", "write"} THEN checksum ELSE ""]
                h == HandleBackupError(c, result, le)
            IN [storage |-> StorageAfterFailure(st, storagePath,
                                                Artifact(backupID, checksum, FALSE), o),
                lastRun |-> lr,
                lastError |-> h.lastError,
                result |-> result,
                err |-> result.Error,
                notifications |-> h.notifications,
                metadata |-> NilRecord,
                record |-> NilRecord,
                metaWritten |-> FALSE,
                clock |-> t]
       ELSE LET st1 == Put(st, storagePath, Artifact(backupID, checksum, TRUE))
                tMeta == t + o.dt
                info == GetRetentionInfo(p, t)
                m0 == [NewBackupMetadata(backupID, tMeta) EXCEPT
                          !.Method = IF c.IsSQLite THEN "sqlite" ELSE "postgres",
                          !.Compression = c.Compression,
                          !.Checksum = checksum,
                          !.KeepUntil = info.keepUntil,
                          !.Policy = info.policy,
                          !.Type = info.policy]
                m1 == AddFile(m0, storagePath)
                st2 == PersistMetadata(st1, metaPath, m1, o)
                m2 == IF o.jsonErr THEN m1 ELSE AddFile(m1, metaPath)
                verifyFailed == c.VerifyAfterBackup /\ o.verifyErr
                result == [result0 EXCEPT
                              !.Checksum = checksum,
                              !.Verified = c.VerifyAfterBackup /\ ~o.verifyErr,
                              !.VerifyError = IF verifyFailed
                                              THEN "verification failed" ELSE Nil]
                done == RecordDone(t)
            IN [storage |-> st2,
                lastRun |-> done.lastRun,
                lastError |-> done.lastError,
                result |-> result,
                err |-> Nil,
                notifications |->
                    VerifyNotifications(c, verifyFailed)
                    \o (IF c.notifier THEN <<"success">> ELSE <<>>),
                metadata |-> m2,
                record |-> m1,
                metaWritten |-> ~o.jsonErr /\ ~o.metaWriteErr,
                clock |-> tMeta]

Run(o) ==
    /\ nRuns < MaxRuns
    /\ Canonical(cfg, o)
    /\ nFaults + FaultCount(o) <= MaxFaults
    /\ nFaults' = nFaults + FaultCount(o)
    /\ LET e == RunEffect(cfg, policy, storage, lastRun, lastError, clock, o)
       IN /\ storage' = e.storage
          /\ lastRun' = e.lastRun
          /\ lastError' = e.lastError
          /\ clock' = e.clock
          /\ ret' = [op |-> "Run", fail |-> o.fail, id |-> GenerateBackupID(clock),
                     attempts |-> StepAttempts,
                     result |-> e.result, err |-> e.err,
                     notifications |-> e.notifications,
                     metadata |-> e.metadata, metaWritten |-> e.metaWritten]
    /\ nRuns' = nRuns + 1
    /\ UNCHANGED <<cfg, rotVars, libVars, schedVars>>

\* The keys of the metadata objects ListBackups reads
MetaKeys(st) == {k \in DOMAIN st : HasMetaSuffix(k)}

\* All enumerations of a finite set as a sequence
RECURSIVE SeqsOf(_)
SeqsOf(S) ==
    IF S = {} THEN {<<>>}
    ELSE UNION {{<<x>> \o rest : rest \in SeqsOf(S \ {x})} : x \in S}

\* ListBackups: the parsed records of the readable, parseable metadata
\* objects, in the order storage.List reports them (any order here).
ListBackupsOf(st, unreadable) ==
    LET ks == {k \in MetaKeys(st) : k \notin unreadable /\ IsJSON(st[k])}
    IN {[i \in 1..Cardinality(ks) |-> ParseMetadata(st[f[i]])] : f \in SeqsOf(ks)}

\* GetBackup: the parsed record, or nil (with an error) when the metadata
\* object cannot be read or parsed
GetBackupOf(st, backupID) ==
    IF MetaPath(backupID) \in DOMAIN st /\ IsJSON(st[MetaPath(backupID)])
    THEN ParseMetadata(st[MetaPath(backupID)])
    ELSE NilRecord

RECURSIVE FilesOf(_)
\* every file of every record of a slice, in deletion order
FilesOf(bs) ==
    IF bs = <<>> THEN <<>> ELSE Head(bs).Files \o FilesOf(Tail(bs))

SeqSet(q) == {q[i] : i \in 1..Len(q)}

CleanupDeleteMutAbortOnError(st, del, failing) ==
    LET fs == FilesOf(del)
        bad == {i \in 1..Len(fs) : fs[i] \in failing}
        stop == IF bad = {} THEN Len(fs) + 1 ELSE CHOOSE i \in bad : \A j \in bad : i <= j
    IN Remove(st, {fs[i] : i \in 1..(stop - 1)})

CleanupDeleteMutWithMetadata(st, del, failing) ==
    Remove(st, (SeqSet(FilesOf(del)) \ failing) \cup (IF del = <<>> THEN {} ELSE MetaKeys(st)))

\* The two loops of Cleanup: Delete is called on every file of every record;
\* those in failing return an error, the others are removed.
CleanupDelete(st, del, failing) == Remove(st, SeqSet(FilesOf(del)) \ failing)

Cleanup(listErr) ==
    /\ ret.op # "init"
    /\ IF listErr
       THEN /\ ret' = [op |-> "Cleanup", err |-> "failed to list backups", deletedCount |-> 0,
                       toDelete |-> <<>>, failing |-> {}]
            /\ UNCHANGED <<storage, nFaults>>
       ELSE \E del \in UNION {DetermineBackupsToDelete(bs, policy, clock) :
                                  bs \in ListBackupsOf(storage, {})} :
            \E failing \in SUBSET SeqSet(FilesOf(del)) :
              /\ nFaults + Cardinality(failing) <= MaxFaults
              /\ nFaults' = nFaults + Cardinality(failing)
              /\ storage' = CleanupDelete(storage, del, failing)
              /\ ret' = [op |-> "Cleanup", err |-> Nil, deletedCount |-> Len(del),
                         toDelete |-> del, failing |-> failing]
    /\ UNCHANGED <<cfg, clock, lastRun, lastError, nRuns, rotVars, libVars, schedVars>>

\* Time passing between calls: the next day begins. The calendar advances
\* once, after the first Run; seconds pass inside Run.
Tick ==
    /\ nRuns > 0
    /\ DayIndex(clock) = 0
    /\ clock' = clock + SecondsPerDay
    /\ UNCHANGED <<cfg, storage, lastRun, lastError, nRuns, nFaults, ret, rotVars, libVars, schedVars>>

\* ---------------------------------------------------------------------------
\* Specification of the engine: Run, Cleanup and time, one call at a time
\* ---------------------------------------------------------------------------
\* The configurations the engine is started with: a sample in which every
\* pair of settings of compression, verification and notifier occurs.
Configs ==
    {c \in [Compression : {"gzip", "none"}, IsSQLite : {TRUE},
            VerifyAfterBackup : BOOLEAN, notifier : BOOLEAN] :
        (c.Compression = "gzip") = (c.VerifyAfterBackup = c.notifier)}

EnginePolicies ==
    {p \in Policies : p.KeepDaily <= 1 /\ p.KeepWeekly = 0
                      /\ p.KeepMonthly = 0 /\ p.MaxAgeDays <= 1}

EngInit ==
    /\ LibIdle
    /\ RotIdle
    /\ policy \in EnginePolicies
    /\ SchedIdle
    /\ cfg \in Configs
    /\ storage = <<>>
    /\ clock = 0
    /\ lastRun = ZeroTime
    /\ lastError = Nil
    /\ nRuns = 0
    /\ nFaults = 0
    /\ ret = [op |-> "init"]

EngNext ==
    \/ \E o \in CanonicalOutcomes : Run(o)
    \/ \E listErr \in BOOLEAN : Cleanup(listErr)
    \/ Tick

SpecEngine == EngInit /\ [][EngNext]_vars

\* ---------------------------------------------------------------------------
\* Specification of Cleanup over a storage that already holds backups: two
\* records, each listing up to MaxFiles of its own keys in any order, as the
\* records of a backend written before this process started may.
\* ---------------------------------------------------------------------------
SeedIDs == {0, 1}

SeedFileLists(id) ==
    UNION {[1..n -> {Key(id, ".sql"), MetaPath(id)}] : n \in 1..MaxFiles}

SeedRecords(id) ==
    {[NewBackupMetadata(id, id) EXCEPT !.Files = fs] : fs \in SeedFileLists(id)}

SeedStore(rs) ==
    [k \in UNION {{Key(id, ".sql"), MetaPath(id)} : id \in SeedIDs} |->
        IF HasMetaSuffix(k) THEN ToJSON(rs[k.id]) ELSE Artifact(k.id, "sha256", TRUE)]

SeedStores ==
    {SeedStore(rs) : rs \in {f \in [SeedIDs -> UNION {SeedRecords(id) : id \in SeedIDs}] :
                                \A id \in SeedIDs : f[id] \in SeedRecords(id)}}

CleanupInit ==
    /\ LibIdle
    /\ RotIdle
    /\ policy \in EnginePolicies
    /\ SchedIdle
    /\ cfg = [Compression |-> "none", IsSQLite |-> TRUE,
              VerifyAfterBackup |-> FALSE, notifier |-> FALSE]
    /\ storage \in SeedStores
    /\ clock \in {1, 2 * SecondsPerDay}
    /\ lastRun = ZeroTime
    /\ lastError = Nil
    /\ nRuns = 0
    /\ nFaults = 0
    /\ ret = [op |-> "seed"]

CleanupNext == \E listErr \in BOOLEAN : Cleanup(listErr)

SpecCleanup == CleanupInit /\ [][CleanupNext]_vars

\* ---------------------------------------------------------------------------
\* Engine.Run statement by statement, under the outcomes chosen at entry:
\* the connection, the temporary directory and files and the file handles it
\* holds, the calls it defers, and the trace of the stages it went through
\* ---------------------------------------------------------------------------
RunDeferredMutNone(r) == r

RECURSIVE RunDeferred(_)
\* the deferred calls run when Run returns, the last registered first
RunDeferred(r) ==
    IF r.defers = <<>> THEN r
    ELSE LET d == r.defers[Len(r.defers)]
             r1 == [r EXCEPT !.defers = SubSeq(@, 1, Len(@) - 1)]
         IN RunDeferred(
              CASE d = "driver.Close" -> [r1 EXCEPT !.conn = "closed"]
                [] d = "os.RemoveAll" -> [r1 EXCEPT !.tmpDir = "removed", !.tmpFiles = {}]
                [] d = "f.Close" -> [r1 EXCEPT !.handles = @ \ {"f"}])

Defer(r, call) == [r EXCEPT !.defers = Append(@, call)]

Staged(r, stage) == [r EXCEPT !.stages = Append(@, stage)]

AfterStatMutNoCompress(c) == "checksum"

\* switch e.cfg.Compression: only "gzip" compresses
AfterStat(c) == IF c.Compression = "gzip" THEN "compress" ELSE "checksum"

\* if e.cfg.Backup.VerifyAfterBackup
AfterMetadata(c) == IF c.VerifyAfterBackup THEN "verify" ELSE "finish"

\* result.Error is set, handleBackupError is called and Run returns the
\* error; r carries what the failed statement left behind
FailAt(stage, r) ==
    LET result == [NewResult(r.id, r.start) EXCEPT !.Error = ErrorOf(stage)]
        h == HandleBackupError(cfg, result, lastError)
    IN /\ run' = [RunDeferred(Staged(Staged(r, stage), "failed")) EXCEPT
                     !.pc = "returned", !.err = result.Error,
                     !.notifications = @ \o h.notifications]
       /\ lastError' = h.lastError
       /\ UNCHANGED lastRun

\* the statement succeeded; r carries what it acquired
PassTo(stage, next, r) ==
    /\ run' = [Staged(r, stage) EXCEPT !.pc = next]
    /\ UNCHANGED <<lastRun, lastError>>

runFrame == <<cfg, clock, nRuns, nFaults, ret, rotVars, schedVars, retry, validation>>

\* startTime := time.Now(); backupID := GenerateBackupID(startTime)
RunEnter(o) ==
    /\ run.pc = "idle"
    /\ Canonical(cfg, o)
    /\ run' = [pc |-> "driver", o |-> o, id |-> GenerateBackupID(clock), start |-> clock,
               conn |-> "none", tmpDir |-> "none", tmpFiles |-> {}, osTmp |-> {},
               handles |-> {}, defers |-> <<>>, stages |-> <<>>, checksum |-> "",
               notifications |-> <<>>, err |-> Nil]
    /\ UNCHANGED <<storage, lastRun, lastError, runFrame>>

\* database.NewDriver(dbCfg)
RunNewDriver ==
    /\ run.pc = "driver"
    /\ IF run.o.fail = "driver"
       THEN FailAt("driver", run)
       ELSE PassTo("driver", "connect", run)
    /\ UNCHANGED <<storage, runFrame>>

\* driver.Connect(ctx); defer driver.Close()
RunConnect ==
    /\ run.pc = "connect"
    /\ IF run.o.fail = "connect"
       THEN FailAt("connect", run)
       ELSE PassTo("connect", "tmpdir", Defer([run EXCEPT !.conn = "open"], "driver.Close"))
    /\ UNCHANGED <<storage, runFrame>>

\* os.MkdirTemp("", "datasaver-*"); defer os.RemoveAll(tmpDir)
RunMkdirTemp ==
    /\ run.pc = "tmpdir"
    /\ IF run.o.fail = "tmpdir"
       THEN FailAt("tmpdir", run)
       ELSE PassTo("tmpdir", "create", Defer([run EXCEPT !.tmpDir = "present"], "os.RemoveAll"))
    /\ UNCHANGED <<storage, runFrame>>

\* dumpOutput, err := os.Create(dumpFile)
RunCreateDump ==
    /\ run.pc = "create"
    /\ IF run.o.fail = "create"
       THEN FailAt("create", run)
       ELSE PassTo("create", "dump",
                   [run EXCEPT !.tmpFiles = @ \cup {"dump"}, !.handles = @ \cup {"dumpOutput"}])
    /\ UNCHANGED <<storage, runFrame>>

\* driver.Dump(ctx, dumpOutput); dumpOutput.Close() on both branches
RunDump ==
    /\ run.pc = "dump"
    /\ LET r == [run EXCEPT !.handles = @ \ {"dumpOutput"}]
       IN IF run.o.fail = "dump"
          THEN FailAt("dump", r)
          ELSE PassTo("dump", "stat", r)
    /\ UNCHANGED <<storage, runFrame>>

\* os.Stat(dumpFile)
RunStat ==
    /\ run.pc = "stat"
    /\ IF run.o.fail = "stat"
       THEN FailAt("stat", run)
       ELSE PassTo("stat", AfterStat(cfg), run)
    /\ UNCHANGED <<storage, runFrame>>

\* compressGzip(dumpFile, compressedFile): the .gz file exists from
\* os.Create on, whether or not the copy succeeds; in and out are closed by
\* the defers of compressGzip
RunCompress ==
    /\ run.pc = "compress"
    /\ LET r == [run EXCEPT !.tmpFiles = @ \cup {"dump.gz"}]
       IN IF run.o.fail = "compress"
          THEN FailAt("compress", r)
          ELSE PassTo("compress", "checksum", r)
    /\ UNCHANGED <<storage, runFrame>>

\* postgres.CalculateChecksum(finalFile): an error is only logged
RunChecksum ==
    /\ run.pc = "checksum"
    /\ PassTo("checksum", "open",
              [run EXCEPT !.checksum = ComputedChecksum(run.o)])
    /\ UNCHANGED <<storage, runFrame>>

\* f, err := os.Open(finalFile); defer f.Close()
RunOpen ==
    /\ run.pc = "open"
    /\ IF run.o.fail = "open"
       THEN FailAt("open", run)
       ELSE PassTo("open", "write", Defer([run EXCEPT !.handles = @ \cup {"f"}], "f.Close"))
    /\ UNCHANGED <<storage, runFrame>>

\* e.storage.Write(ctx, storagePath, f)
RunWrite ==
    /\ run.pc = "write"
    /\ LET storagePath == StoragePath(cfg, run.id)
       IN IF run.o.fail = "write"
          THEN /\ FailAt("write", run)
               /\ storage' = IF run.o.partial
                             THEN Put(storage, storagePath, Artifact(run.id, run.checksum, FALSE))
                             ELSE storage
          ELSE /\ PassTo("write", "metadata", run)
               /\ storage' = Put(storage, storagePath, Artifact(run.id, run.checksum, TRUE))
    /\ UNCHANGED runFrame

\* The record is built, serialised and written under <id>.meta.json
RunMetadata ==
    /\ run.pc = "metadata"
    /\ LET e == RunEffect(cfg, policy, storage, lastRun, lastError, run.start, run.o)
           r == IF run.o.jsonErr THEN Staged(run, "tojson")
                ELSE Staged(Staged(run, "tojson"), "metawrite")
       IN /\ storage' = PersistMetadata(storage, MetaPath(run.id), e.record, run.o)
          /\ run' = [r EXCEPT !.pc = AfterMetadata(cfg)]
    /\ UNCHANGED <<lastRun, lastError, runFrame>>

\* validator.VerifyRestoreIntegrity begins: the artifact is downloaded to a
\* temporary file and restored into a temporary database, both outside tmpDir
RunVerifyBegin ==
    /\ run.pc = "verify"
    /\ run' = [run EXCEPT !.pc = "verifying",
                          !.osTmp = {"datasaver-validate", "datasaver-verify"}]
    /\ UNCHANGED <<storage, lastRun, lastError, runFrame>>

\* VerifyRestoreIntegrity returns: its defers remove both temporary files;
\* a failure is recorded in the result and notified
RunVerifyEnd ==
    /\ run.pc = "verifying"
    /\ run' = [Staged(run, "verify") EXCEPT
                  !.pc = "finish", !.osTmp = {},
                  !.notifications = @ \o VerifyNotifications(cfg, run.o.verifyErr)]
    /\ UNCHANGED <<storage, lastRun, lastError, runFrame>>

\* e.lastRun = startTime; e.lastError = nil; NotifySuccess; return result, nil
RunFinish ==
    /\ run.pc = "finish"
    /\ LET done == RecordDone(run.start)
       IN /\ lastRun' = done.lastRun
          /\ lastError' = done.lastError
    /\ run' = [RunDeferred(Staged(run, "done")) EXCEPT
                  !.pc = "returned",
                  !.notifications = @ \o (IF cfg.notifier THEN <<"success">> ELSE <<>>)]
    /\ UNCHANGED <<storage, runFrame>>

RunInit ==
    /\ RotIdle
    /\ policy \in EnginePolicies
    /\ SchedIdle
    /\ retry = [pc |-> "idle"]
    /\ validation = [pc |-> "idle"]
    /\ run = [pc |-> "idle"]
    /\ cfg \in Configs
    /\ storage = <<>>
    /\ clock = 0
    /\ lastRun = ZeroTime
    /\ lastError = Nil
    /\ nRuns = 0
    /\ nFaults = 0
    /\ ret = [op |-> "init"]

RunNext ==
    \/ \E o \in CanonicalOutcomes : RunEnter(o)
    \/ RunNewDriver
    \/ RunConnect
    \/ RunMkdirTemp
    \/ RunCreateDump
    \/ RunDump
    \/ RunStat
    \/ RunCompress
    \/ RunChecksum
    \/ RunOpen
    \/ RunWrite
    \/ RunMetadata
    \/ RunVerifyBegin
    \/ RunVerifyEnd
    \/ RunFinish

SpecRun == RunInit /\ [][RunNext]_vars

\* ---------------------------------------------------------------------------
\* internal/backup/scheduler.go, with the goroutines of cron and of the
\* daemon. Engine.Run is split where other goroutines can observe it: its
\* body, and the stores to lastRun and lastError that end it. Its effect on
\* storage is the one of the action Run above and is left out here.
\* ---------------------------------------------------------------------------
CronJobs == 1..MaxJobs

\* the runners inside Engine.Run
ActiveRuns == {r \in Runners : pc[r] \in {"run", "store"}}

\* the runners whose stores to lastRun and lastError are in progress
Storing == {r \in Runners : pc[r] = "store"}

\* the jobs cron.Stop waits for
JobsInFlight == {j \in CronJobs : pc[j] # "idle"}

\* Scheduler.Start up to the release of the mutex
StartLockMutRestart ==
    /\ ctlPc = "idle"
    /\ mu = "none"
    /\ cronEntries < MaxEntries
    /\ running' = TRUE
    /\ ctlPc' = "startAdd"
    /\ UNCHANGED <<nextRun, mu, scheduleOK, cronEntries, cronRunning, pc, pending,
                   healthPc, healthView, rotVars, libVars, engVars>>

StartLock ==
    /\ ctlPc = "idle"
    /\ mu = "none"
    /\ cronEntries < MaxEntries
    /\ IF running
       THEN UNCHANGED <<running, ctlPc>>
       ELSE /\ running' = TRUE
            /\ ctlPc' = "startAdd"
    /\ UNCHANGED <<nextRun, mu, scheduleOK, cronEntries, cronRunning, pc, pending,
                   healthPc, healthView, rotVars, libVars, engVars>>

\* Scheduler.Start from AddFunc on: a rejected schedule returns the error;
\* otherwise the entry is added, the cron started and nextRun set.
StartAdd ==
    /\ ctlPc = "startAdd"
    /\ IF scheduleOK
       THEN /\ mu = "none"
            /\ cronEntries' = cronEntries + 1
            /\ cronRunning' = TRUE
            /\ nextRun' = clock + 1
       ELSE UNCHANGED <<cronEntries, cronRunning, nextRun>>
    /\ ctlPc' = "idle"
    /\ UNCHANGED <<running, mu, scheduleOK, pc, pending, healthPc, healthView,
                   rotVars, libVars, engVars>>

\* Scheduler.Stop up to cron.Stop(): the mutex stays locked while it waits
StopLock ==
    /\ ctlPc = "idle"
    /\ mu = "none"
    /\ IF running
       THEN /\ cronRunning' = FALSE
            /\ mu' = "stop"
            /\ ctlPc' = "stopWait"
       ELSE UNCHANGED <<cronRunning, mu, ctlPc>>
    /\ UNCHANGED <<running, nextRun, scheduleOK, cronEntries, pc, pending,
                   healthPc, healthView, rotVars, libVars, engVars>>

\* Scheduler.Stop after <-ctx.Done(): every job the cron started has ended
StopWait ==
    /\ ctlPc = "stopWait"
    /\ JobsInFlight = {}
    /\ running' = FALSE
    /\ mu' = "none"
    /\ ctlPc' = "idle"
    /\ UNCHANGED <<nextRun, scheduleOK, cronEntries, cronRunning, pc, pending,
                   healthPc, healthView, rotVars, libVars, engVars>>

\* Engine.Run entered by runner r: it reads the start time
RunBegin(r) ==
    /\ pc[r] = "idle"
    /\ nRuns < MaxRuns
    /\ nRuns' = nRuns + 1
    /\ pc' = [pc EXCEPT ![r] = "run"]
    /\ pending' = [pending EXCEPT ![r] = [NoPending EXCEPT !.lastRun = clock]]
    /\ clock' = clock + 1
    /\ UNCHANGED <<running, nextRun, mu, scheduleOK, cronEntries, cronRunning, ctlPc,
                   healthPc, healthView, rotVars, libVars, cfg, storage, lastRun, lastError,
                   nFaults, ret>>

\* The cron fires an entry: a new goroutine calls runBackup, whatever the
\* jobs started before are doing.
CronFire(j) ==
    /\ j \in CronJobs
    /\ cronRunning
    /\ cronEntries > 0
    /\ RunBegin(j)

\* Scheduler.RunNow called from another goroutine
RunNow == RunBegin(0)

\* The body of Engine.Run ends: it succeeded (ok) or failed at some stage,
\* and starts storing lastRun and lastError, or lastError alone.
RunBody(r, ok) ==
    /\ pc[r] = "run"
    /\ pc' = [pc EXCEPT ![r] = "store"]
    /\ pending' = [pending EXCEPT ![r] =
                      IF ok THEN [@ EXCEPT !.lastError = Nil, !.ok = TRUE]
                      ELSE [@ EXCEPT !.lastError = "backup failed", !.ok = FALSE]]
    /\ UNCHANGED <<running, nextRun, mu, scheduleOK, cronEntries, cronRunning, ctlPc,
                   healthPc, healthView, rotVars, libVars, engVars>>

\* The stores are done and Engine.Run returns: to RunNow's caller, or into
\* runBackup, which goes on to Cleanup.
RunStore(r) ==
    /\ pc[r] = "store"
    /\ lastRun' = IF pending[r].ok THEN pending[r].lastRun ELSE lastRun
    /\ lastError' = pending[r].lastError
    /\ pc' = [pc EXCEPT ![r] = IF r = 0 THEN "idle" ELSE "cleanup"]
    /\ pending' = [pending EXCEPT ![r] = NoPending]
    /\ UNCHANGED <<running, nextRun, mu, scheduleOK, cronEntries, cronRunning, ctlPc,
                   healthPc, healthView, rotVars, libVars, cfg, storage, clock, nRuns,
                   nFaults, ret>>

\* runBackup: Engine.Cleanup
JobCleanup(j) ==
    /\ j \in CronJobs
    /\ pc[j] = "cleanup"
    /\ pc' = [pc EXCEPT ![j] = "next"]
    /\ UNCHANGED <<running, nextRun, mu, scheduleOK, cronEntries, cronRunning, ctlPc,
                   pending, healthPc, healthView, rotVars, libVars, engVars>>

\* runBackup: nextRun is updated under the mutex, and the job ends
JobNext(j) ==
    /\ j \in CronJobs
    /\ pc[j] = "next"
    /\ mu = "none"
    /\ nextRun' = clock + 1
    /\ pc' = [pc EXCEPT ![j] = "idle"]
    /\ UNCHANGED <<running, mu, scheduleOK, cronEntries, cronRunning, ctlPc,
                   pending, healthPc, healthView, rotVars, libVars, engVars>>

\* What a load of lastRun can return: the stored value, or, while a Run is
\* storing it, also the new value or a mix of the words of both.
LastRunLoads ==
    LET writers == {r \in Storing : pending[r].ok}
    IN {lastRun} \cup {pending[r].lastRun : r \in writers}
       \cup (IF writers = {} THEN {} ELSE {TornTime})

LastErrorLoads ==
    {lastError} \cup {pending[r].lastError : r \in Storing}
    \cup (IF Storing = {} THEN {} ELSE {"<torn>"})

\* healthHandler: a request arrives
HealthBegin ==
    /\ healthPc = "idle"
    /\ healthPc' = "readLastRun"
    /\ UNCHANGED <<running, nextRun, mu, scheduleOK, cronEntries, cronRunning, ctlPc,
                   pc, pending, healthView, rotVars, libVars, engVars>>

\* healthHandler: engine.LastRun()
HealthLastRun ==
    /\ healthPc = "readLastRun"
    /\ \E v \in LastRunLoads : healthView' = [healthView EXCEPT !.lastRun = v]
    /\ healthPc' = "readLastError"
    /\ UNCHANGED <<running, nextRun, mu, scheduleOK, cronEntries, cronRunning, ctlPc,
                   pc, pending, rotVars, libVars, engVars>>

\* healthHandler: engine.LastError()
HealthLastError ==
    /\ healthPc = "readLastError"
    /\ \E v \in LastErrorLoads : healthView' = [healthView EXCEPT !.lastError = v]
    /\ healthPc' = "readNextRun"
    /\ UNCHANGED <<running, nextRun, mu, scheduleOK, cronEntries, cronRunning, ctlPc,
                   pc, pending, rotVars, libVars, engVars>>

\* healthHandler: scheduler.NextRun(), under the read lock
HealthNextRun ==
    /\ healthPc = "readNextRun"
    /\ mu = "none"
    /\ healthView' = [healthView EXCEPT !.nextRun = nextRun]
    /\ healthPc' = "idle"
    /\ UNCHANGED <<running, nextRun, mu, scheduleOK, cronEntries, cronRunning, ctlPc,
                   pc, pending, rotVars, libVars, engVars>>

\* ---------------------------------------------------------------------------
\* Specification of the scheduler and the goroutines around the engine
\* ---------------------------------------------------------------------------
SchedInit ==
    /\ LibIdle
    /\ RotIdle
    /\ policy = NewPolicy(0, 0, 0, 0)
    /\ EngIdle
    /\ running = FALSE
    /\ nextRun = ZeroTime
    /\ mu = "none"
    /\ scheduleOK \in BOOLEAN
    /\ cronEntries = 0
    /\ cronRunning = FALSE
    /\ ctlPc = "idle"
    /\ pc = [r \in Runners |-> "idle"]
    /\ pending = [r \in Runners |-> NoPending]
    /\ healthPc = "idle"
    /\ healthView = [lastRun |-> ZeroTime, lastError |-> Nil, nextRun |-> ZeroTime]

SchedNext ==
    \/ StartLock
    \/ StartAdd
    \/ StopLock
    \/ StopWait
    \/ \E j \in CronJobs : CronFire(j)
    \/ RunNow
    \/ \E r \in Runners : \E ok \in BOOLEAN : RunBody(r, ok)
    \/ \E r \in Runners : RunStore(r)
    \/ \E j \in CronJobs : JobCleanup(j)
    \/ \E j \in CronJobs : JobNext(j)
    \/ HealthBegin
    \/ HealthLastRun
    \/ HealthLastError
    \/ HealthNextRun

SpecSched == SchedInit /\ [][SchedNext]_vars

\* The goroutines of the program are scheduled fairly: a goroutine that can
\* take its next step eventually takes it. That covers Stop once it has been
\* called and every step of a started Engine.Run or runBackup; when Start,
\* Stop, RunNow or a health request is called, and when the cron fires, is
\* up to the environment.
SchedFairness ==
    /\ WF_vars(StopWait)
    /\ \A r \in Runners : WF_vars(\E ok \in BOOLEAN : RunBody(r, ok))
    /\ \A r \in Runners : WF_vars(RunStore(r))
    /\ \A j \in CronJobs : WF_vars(JobCleanup(j))
    /\ \A j \in CronJobs : WF_vars(JobNext(j))

SpecSchedFair == SchedInit /\ [][SchedNext]_vars /\ SchedFairness

\* ---------------------------------------------------------------------------
\* internal/backup/retry.go
\* A string is the sequence of its bytes; an error is its message and the
\* context error its chain wraps, if any.
\* ---------------------------------------------------------------------------
UpperLetters ==
    <<"A", "B", "C", "D", "E", "F", "G", "H", "I", "J", "K", "L", "M",
      "N", "O", "P", "Q", "R", "S", "T", "U", "V", "W", "X", "Y", "Z">>

LowerLetters ==
    <<"a", "b", "c", "d", "e", "f", "g", "h", "i", "j", "k", "l", "m",
      "n", "o", "p", "q", "r", "s", "t", "u", "v", "w", "x", "y", "z">>

\* if ca >= 'A' && ca <= 'Z' { ca += 'a' - 'A' }
ToLower(c) ==
    IF \E i \in 1..Len(UpperLetters) : UpperLetters[i] = c
    THEN LowerLetters[CHOOSE i \in 1..Len(UpperLetters) : UpperLetters[i] = c]
    ELSE c

equalFoldSlice(a, b) ==
    /\ Len(a) = Len(b)
    /\ \A i \in 1..Len(a) : ToLower(a[i]) = ToLower(b[i])

containsLower(s, substr) ==
    \E i \in 0..(Len(s) - Len(substr)) :
        equalFoldSlice(SubSeq(s, i + 1, i + Len(substr)), substr)

contains(s, substr) ==
    /\ Len(s) >= Len(substr)
    /\ (s = substr \/ (Len(s) > 0 /\ containsLower(s, substr)))

nonRetryableErrors ==
    <<<<"p", "e", "r", "m", "i", "s", "s", "i", "o", "n", " ", "d", "e", "n", "i", "e", "d">>,
      <<"a", "c", "c", "e", "s", "s", " ", "d", "e", "n", "i", "e", "d">>,
      <<"a", "u", "t", "h", "e", "n", "t", "i", "c", "a", "t", "i", "o", "n", " ", "f", "a", "i", "l", "e", "d">>,
      <<"i", "n", "v", "a", "l", "i", "d", " ", "p", "a", "s", "s", "w", "o", "r", "d">>,
      <<"d", "a", "t", "a", "b", "a", "s", "e", " ", "d", "o", "e", "s", " ", "n", "o", "t", " ", "e", "x", "i", "s", "t">>,
      <<"r", "o", "l", "e", " ", "d", "o", "e", "s", " ", "n", "o", "t", " ", "e", "x", "i", "s", "t">>>>

\* errors.New(msg)
NewError(msg) == [msg |-> msg, is |-> "none"]

\* context.Canceled and context.DeadlineExceeded
Canceled ==
    [msg |-> <<"c", "o", "n", "t", "e", "x", "t", " ", "c", "a", "n", "c", "e", "l", "e", "d">>,
     is |-> "Canceled"]

DeadlineExceeded ==
    [msg |-> <<"c", "o", "n", "t", "e", "x", "t", " ", "d", "e", "a", "d", "l", "i", "n", "e", " ", "e", "x", "c", "e", "e", "d", "e", "d">>,
     is |-> "DeadlineExceeded"]

\* fmt.Errorf("<prefix>: %w", err)
Wrap(prefix, err) == [msg |-> prefix \o <<":", " ">> \o err.msg, is |-> err.is]

isRetryableMutAnyError(err) == err # NilRecord

isRetryable(err) ==
    IF err = NilRecord THEN FALSE
    ELSE IF err.is \in {"Canceled", "DeadlineExceeded"} THEN FALSE
    ELSE ~\E i \in 1..Len(nonRetryableErrors) : contains(err.msg, nonRetryableErrors[i])

\* wait = time.Duration(float64(wait) * cfg.Multiplier), the multiplier being
\* num/den and the conversion truncating; then the cap at MaxWait
NextWaitMutNoCap(wait, c) == (wait * c.Multiplier.num) \div c.Multiplier.den

NextWait(wait, c) ==
    LET w == (wait * c.Multiplier.num) \div c.Multiplier.den
    IN IF w > c.MaxWait THEN c.MaxWait ELSE w

DefaultRetryConfig ==
    [MaxAttempts |-> 3, InitialWait |-> 1, MaxWait |-> 30,
     Multiplier |-> [num |-> 2, den |-> 1]]

LoopContinuesMutStrict(attempt, c) == attempt < c.MaxAttempts

\* attempt <= cfg.MaxAttempts, the condition of the loop
LoopContinues(attempt, c) == attempt <= c.MaxAttempts

WaitsAfterMutLastToo(attempt, c) == attempt <= c.MaxAttempts

\* if attempt < cfg.MaxAttempts: a wait follows every attempt but the last
WaitsAfter(attempt, c) == attempt < c.MaxAttempts

TimerWinsMutAlways(ctxErr, wait) == TRUE

\* The select between ctx.Done() and time.After(wait): a context cancelled
\* before the timer is due is the case taken; a timer due at once may be.
TimerWins(ctxErr, wait) == ctxErr = NilRecord \/ wait <= 0

\* The errors the operation returns in this model: two transient ones, a
\* credential error in mixed case, and context errors, bare and wrapped.
ErrTimeout == NewError(<<"i", "/", "o", " ", "t", "i", "m", "e", "o", "u", "t">>)

ErrRefused ==
    NewError(<<"c", "o", "n", "n", "e", "c", "t", "i", "o", "n", " ", "r", "e", "f", "u", "s", "e", "d">>)

ErrAuth ==
    NewError(<<"F", "A", "T", "A", "L", ":", " ", "P", "a", "s", "s", "w", "o", "r", "d", " ", "A", "u", "t", "h", "e", "n", "t", "i", "c", "a", "t", "i", "o", "n", " ", "F", "a", "i", "l", "e", "d">>)

ErrWrappedCanceled == Wrap(<<"d", "u", "m", "p">>, Canceled)

FnErrors == {ErrTimeout, ErrRefused, ErrAuth, ErrWrappedCanceled, DeadlineExceeded}

Multipliers ==
    {[num |-> 1, den |-> 2], [num |-> 1, den |-> 1], [num |-> 3, den |-> 2],
     [num |-> 2, den |-> 1]}

RetryConfigs ==
    [MaxAttempts : 0..MaxAttemptsBound, InitialWait : 0..MaxWaitBound,
     MaxWait : 0..MaxWaitBound, Multiplier : Multipliers]

NoCancel == [pc |-> "never"]

\* WithRetry entered: lastErr is nil, wait is cfg.InitialWait, attempt is 1
RetryStart(c, ctxErr) ==
    [pc |-> "loop", cfg |-> c, ctxErr |-> ctxErr,
     attempt |-> 1, wait |-> c.InitialWait, lastErr |-> NilRecord,
     calls |-> <<>>, waits |-> <<>>, elapsed |-> 0,
     cancelAt |-> IF ctxErr = NilRecord THEN NoCancel
                  ELSE [pc |-> "entry", calls |-> 0, elapsed |-> 0],
     ret |-> [pending |-> TRUE]]

Return(result, err) == [result |-> result, err |-> err]

\* The caller's context is cancelled, or its deadline passes
CancelCtx ==
    /\ retry.pc \in {"loop", "call", "wait"}
    /\ retry.ctxErr = NilRecord
    /\ \E e \in {Canceled, DeadlineExceeded} :
         retry' = [retry EXCEPT
                      !.ctxErr = e,
                      !.cancelAt = [pc |-> retry.pc, calls |-> Len(retry.calls),
                                    elapsed |-> retry.elapsed]]
    /\ UNCHANGED <<rotVars, engVars, schedVars, validation, run>>

\* for attempt := 1; attempt <= cfg.MaxAttempts; attempt++ and the select on
\* ctx.Done() that opens the body; return zero, lastErr after the loop
LoopHead ==
    /\ retry.pc = "loop"
    /\ retry' =
         IF ~LoopContinues(retry.attempt, retry.cfg)
         THEN [retry EXCEPT !.pc = "done", !.ret = Return("zero", retry.lastErr)]
         ELSE IF retry.ctxErr # NilRecord
         THEN [retry EXCEPT !.pc = "done", !.ret = Return("zero", retry.ctxErr)]
         ELSE [retry EXCEPT !.pc = "call"]
    /\ UNCHANGED <<rotVars, engVars, schedVars, validation, run>>

\* result, err := fn() and what follows up to the wait
Invoke(err) ==
    /\ retry.pc = "call"
    /\ LET called == [retry EXCEPT !.calls = Append(@, err)]
       IN retry' =
            IF err = NilRecord
            THEN [called EXCEPT !.pc = "done", !.ret = Return("result", NilRecord)]
            ELSE IF ~isRetryable(err)
            THEN [called EXCEPT !.lastErr = err, !.pc = "done",
                                !.ret = Return("zero", err)]
            ELSE IF WaitsAfter(retry.attempt, retry.cfg)
            THEN [called EXCEPT !.lastErr = err, !.pc = "wait",
                                !.waits = Append(@, retry.wait)]
            ELSE [called EXCEPT !.lastErr = err, !.pc = "loop",
                                !.attempt = @ + 1]
    /\ UNCHANGED <<rotVars, engVars, schedVars, validation, run>>

\* select: case <-ctx.Done(): return zero, ctx.Err()
WaitCancelled ==
    /\ retry.pc = "wait"
    /\ retry.ctxErr # NilRecord
    /\ retry' = [retry EXCEPT !.pc = "done", !.ret = Return("zero", retry.ctxErr)]
    /\ UNCHANGED <<rotVars, engVars, schedVars, validation, run>>

\* select: case <-time.After(wait), then the next wait is computed. A
\* cancelled context wins the select unless the timer is due at once.
WaitElapsed ==
    /\ retry.pc = "wait"
    /\ TimerWins(retry.ctxErr, retry.wait)
    /\ retry' = [retry EXCEPT !.pc = "loop",
                              !.elapsed = @ + 1,
                              !.wait = NextWait(retry.wait, retry.cfg),
                              !.attempt = @ + 1]
    /\ UNCHANGED <<rotVars, engVars, schedVars, validation, run>>

\* ---------------------------------------------------------------------------
\* Specification of one call of WithRetry: any configuration, any context,
\* any sequence of outcomes of the operation
\* ---------------------------------------------------------------------------
RetryInit ==
    /\ RotIdle
    /\ policy = NewPolicy(0, 0, 0, 0)
    /\ EngIdle
    /\ SchedIdle
    /\ validation = [pc |-> "idle"]
    /\ run = [pc |-> "idle"]
    /\ \E c \in RetryConfigs : \E e \in {NilRecord, Canceled, DeadlineExceeded} :
         retry = RetryStart(c, e)

RetryNext ==
    \/ CancelCtx
    \/ LoopHead
    \/ \E err \in FnErrors \cup {NilRecord} : Invoke(err)
    \/ WaitCancelled
    \/ WaitElapsed

SpecRetry == RetryInit /\ [][RetryNext]_vars

\* ---------------------------------------------------------------------------
\* internal/backup/validator.go
\* The storage of the validator maps a key to the size and the sha256 of the
\* object under it; faults names the storage and checksum calls that fail.
\* ---------------------------------------------------------------------------
\* the empty string a search for the data file starts from
NoKey == Key(ZeroTime, "")

NewValidationResult(m) ==
    [BackupID |-> m.ID, Valid |-> TRUE, FileExists |-> FALSE, SizeMatch |-> FALSE,
     ChecksumOK |-> FALSE, Errors |-> <<>>]

InvalidMutNoMessage(r, msg) == [r EXCEPT !.Valid = FALSE]

\* result.Valid = false; result.Errors = append(result.Errors, msg)
Invalid(r, msg) == [r EXCEPT !.Valid = FALSE, !.Errors = Append(@, msg)]

FirstDataFileMutFirstFile(m) == m.Files[1]

\* for _, f := range metadata.Files: the first f != metadata.ID+".meta.json"
FirstDataFile(m) ==
    LET is == {i \in 1..Len(m.Files) : m.Files[i] # MetaPath(m.ID)}
    IN IF is = {} THEN NoKey
       ELSE m.Files[CHOOSE i \in is : \A j \in is : i <= j]

Outcome(result, err, calls) == [result |-> result, err |-> err, calls |-> calls]

ValidateChecksumMutStopWhenInvalid(m, st, faults, backupFile, r, calls) ==
    IF ~r.Valid \/ m.Checksum = ""
    THEN Outcome([r EXCEPT !.ChecksumOK = (m.Checksum = "")], Nil, calls)
    ELSE Outcome(IF st[backupFile].checksum = m.Checksum
                 THEN [r EXCEPT !.ChecksumOK = TRUE]
                 ELSE Invalid(r, "checksum mismatch"),
                 Nil, Append(calls, <<"Read", backupFile>>))

ValidateChecksumMutAlwaysRead(m, st, faults, backupFile, r, calls) ==
    Outcome(IF st[backupFile].checksum = m.Checksum
            THEN [r EXCEPT !.ChecksumOK = TRUE]
            ELSE Invalid(r, "checksum mismatch"),
            Nil, Append(calls, <<"Read", backupFile>>))

ValidateChecksumMutTrustRecord(m, st, faults, backupFile, r, calls) ==
    Outcome([r EXCEPT !.ChecksumOK = TRUE], Nil,
            IF m.Checksum = "" THEN calls ELSE Append(calls, <<"Read", backupFile>>))

\* Validate from the checksum check on: the file exists, sizeCalls were made
ValidateChecksum(m, st, faults, backupFile, r, calls) ==
    IF m.Checksum = ""
    THEN Outcome([r EXCEPT !.ChecksumOK = TRUE], Nil, calls)
    ELSE LET calls2 == Append(calls, <<"Read", backupFile>>)
         IN IF faults.readErr
            THEN Outcome(NilRecord, "failed to read backup file", calls2)
            ELSE IF faults.tmpErr
            THEN Outcome(NilRecord, "failed to create temp file", calls2)
            ELSE IF faults.checksumErr
            THEN Outcome(r, Nil, calls2)
            ELSE IF st[backupFile].checksum = m.Checksum
            THEN Outcome([r EXCEPT !.ChecksumOK = TRUE], Nil, calls2)
            ELSE Outcome(Invalid(r, "checksum mismatch"), Nil, calls2)

\* Validator.Validate: the result, the error and the storage calls made
Validate(m, st, faults) ==
    LET r0 == NewValidationResult(m)
        backupFile == FirstDataFile(m)
        exists == backupFile \in DOMAIN st
        calls1 == <<<<"Exists", backupFile>>>>
        calls2 == Append(calls1, <<"Size", backupFile>>)
    IN IF Len(m.Files) = 0
       THEN Outcome(Invalid(r0, "no files listed in metadata"), Nil, <<>>)
       ELSE IF backupFile = NoKey
       THEN Outcome(Invalid(r0, "backup file not found in metadata"), Nil, <<>>)
       ELSE IF faults.existsErr
       THEN Outcome(NilRecord, "failed to check file existence", calls1)
       ELSE IF ~exists
       THEN Outcome(Invalid(r0, "backup file does not exist"), Nil, calls1)
       ELSE IF faults.sizeErr
       THEN Outcome(NilRecord, "failed to get file size", calls2)
       ELSE LET r1 == [r0 EXCEPT !.FileExists = TRUE,
                                 !.SizeMatch = (st[backupFile].size = m.CompressedSize)]
                r2 == IF r1.SizeMatch THEN r1 ELSE Invalid(r1, "size mismatch")
            IN ValidateChecksum(m, st, faults, backupFile, r2, calls2)

\* ---------------------------------------------------------------------------
\* Specification of one call of Validate: any record, any stored object, any
\* failing call
\* ---------------------------------------------------------------------------
\* the keys a record of id 0 may list: its data file, its own metadata
\* object and the metadata object of another record
ValidatorKeys == {Key(0, ".sql"), MetaPath(0), MetaPath(1)}

FileLists == UNION {[1..n -> ValidatorKeys] : n \in 0..MaxFiles}

Checksums == {"sha256:a", "sha256:b"}

ValidatorRecords ==
    {[NewBackupMetadata(0, 0) EXCEPT !.Files = fs, !.CompressedSize = sz, !.Checksum = ck] :
        fs \in FileLists, sz \in 0..MaxSize, ck \in Checksums \cup {""}}

StoredObjects == [size : 0..MaxSize, checksum : Checksums]

ValidatorStores ==
    {<<>>} \cup {Put(Put(<<>>, Key(0, ".sql"), obj), MetaPath(1), obj) : obj \in StoredObjects}

ValidatorFaults ==
    {f \in [existsErr : BOOLEAN, sizeErr : BOOLEAN, readErr : BOOLEAN,
            tmpErr : BOOLEAN, checksumErr : BOOLEAN] :
        Cardinality({x \in DOMAIN f : f[x]}) <= 1}

ValInit ==
    /\ RotIdle
    /\ policy = NewPolicy(0, 0, 0, 0)
    /\ EngIdle
    /\ SchedIdle
    /\ retry = [pc |-> "idle"]
    /\ run = [pc |-> "idle"]
    /\ \E m \in ValidatorRecords : \E st \in ValidatorStores : \E f \in ValidatorFaults :
         validation = [pc |-> "input", metadata |-> m, store |-> st, faults |-> f]

CallValidate ==
    /\ validation.pc = "input"
    /\ LET out == Validate(validation.metadata, validation.store, validation.faults)
       IN validation' = [validation EXCEPT !.pc = "done"] @@ out
    /\ UNCHANGED <<rotVars, engVars, schedVars, retry, run>>

\* The stored data file of the validated record is overwritten with other
\* content (another sha256, any size); the record is left as it was and is
\* validated once more.
Tamper ==
    /\ validation.pc = "done"
    /\ "first" \notin DOMAIN validation
    /\ LET m == validation.metadata
           st == validation.store
           backupFile == FirstDataFile(m)
       IN /\ backupFile \in DOMAIN st
          /\ \E obj \in StoredObjects :
               /\ obj.checksum # st[backupFile].checksum
               /\ validation' =
                    [pc |-> "input", metadata |-> m, faults |-> validation.faults,
                     store |-> Put(st, backupFile, obj),
                     first |-> [store |-> st, result |-> validation.result,
                                err |-> validation.err, calls |-> validation.calls]]
    /\ UNCHANGED <<rotVars, engVars, schedVars, retry, run>>

ValNext ==
    \/ CallValidate
    \/ Tamper

SpecVal == ValInit /\ [][ValNext]_vars

\* ---------------------------------------------------------------------------
\* Properties of the rotator
\* ---------------------------------------------------------------------------
DeletedIDs == {toDelete[i].ID : i \in 1..Len(toDelete)}

DistinctTimestamps ==
    \A i, j \in 1..Len(backups) : i # j => backups[i].Timestamp # backups[j].Timestamp

OlderCount(i) ==
    Cardinality({j \in 1..Len(backups) : backups[j].Timestamp < backups[i].Timestamp})

Age(t) == now - t

SundayFirst(t) == Weekday(t) = Sunday /\ Day(t) = 1

\* C3: with keepDaily=N and the other quotas and maxAgeDays zero, a slice of
\* N+k (k>0) records with distinct timestamps yields exactly k deletions,
\* the k records with the oldest timestamps, whatever the input order.
C3_DailyOnlyDeletesOldest ==
    (/\ rpc = "done"
     /\ policy.KeepWeekly = 0 /\ policy.KeepMonthly = 0 /\ policy.MaxAgeDays = 0
     /\ Len(backups) > policy.KeepDaily
     /\ DistinctTimestamps)
    => /\ Len(toDelete) = Len(backups) - policy.KeepDaily
       /\ Cardinality(DeletedIDs) = Len(backups) - policy.KeepDaily
       /\ \A i \in 1..Len(backups) :
            (backups[i].ID \in DeletedIDs)
                <=> (OlderCount(i) < Len(backups) - policy.KeepDaily)

C3_Witness ==
    /\ rpc = "done"
    /\ policy.KeepWeekly = 0 /\ policy.KeepMonthly = 0 /\ policy.MaxAgeDays = 0
    /\ policy.KeepDaily = 1
    /\ Len(backups) = 3
    /\ DistinctTimestamps
    /\ backups[1].Timestamp < backups[3].Timestamp
    /\ backups[3].Timestamp < backups[2].Timestamp
    /\ DeletedIDs = {1, 3}

\* C4: with maxAgeDays=0 a record dated on a Sunday that is the first of a
\* month is not deleted whenever the weekly or the monthly quota still has
\* room when the walk reaches it.
C4_SundayFirstKeptByEitherQuota ==
    (rpc = "done" /\ policy.MaxAgeDays = 0)
    => \A i \in 1..Len(entries) :
          (/\ SundayFirst(entries[i].Metadata.Timestamp)
           /\ \/ walk[i].before.weeklyCount < policy.KeepWeekly
              \/ walk[i].before.monthlyCount < policy.KeepMonthly)
          => entries[i].Metadata.ID \notin DeletedIDs

C4_Witness ==
    /\ rpc = "done"
    /\ policy.MaxAgeDays = 0 /\ policy.KeepDaily = 0
    /\ policy.KeepWeekly = 0 /\ policy.KeepMonthly = 1
    /\ Len(entries) = 2
    /\ SundayFirst(entries[2].Metadata.Timestamp)
    /\ ~SundayFirst(entries[1].Metadata.Timestamp)
    /\ walk[2].before.monthlyCount = 0
    /\ DeletedIDs = {entries[1].Metadata.ID}

\* C5: with maxAgeDays > 0 every record older than maxAgeDays is returned,
\* also when a tier quota counted it.
C5_MaxAgeDeletesOld ==
    (rpc = "done" /\ policy.MaxAgeDays > 0)
    => \A i \in 1..Len(backups) :
          Age(backups[i].Timestamp) > policy.MaxAgeDays * SecondsPerDay
          => backups[i].ID \in DeletedIDs

C5_Witness ==
    /\ rpc = "done"
    /\ policy.MaxAgeDays > 0
    /\ \E i \in 1..Len(entries) :
          /\ walk[i].after.shouldKeep
          /\ Age(entries[i].Metadata.Timestamp) > policy.MaxAgeDays * SecondsPerDay
          /\ entries[i].Metadata.ID \in DeletedIDs

\* C6 as stated: with maxAgeDays > 0 no record whose age is within
\* maxAgeDays is deleted, even if newer records exhausted every quota.
C6_Original_YoungNeverDeleted ==
    (rpc = "done" /\ policy.MaxAgeDays > 0)
    => \A i \in 1..Len(backups) :
          Age(backups[i].Timestamp) <= policy.MaxAgeDays * SecondsPerDay
          => backups[i].ID \notin DeletedIDs

\* C6 (amended): with maxAgeDays > 0 a record whose age is within
\* maxAgeDays is not deleted when a tier quota counted it during the walk;
\* a record no quota counted is deleted whatever its age.
C6_YoungKeptWhenCounted ==
    (rpc = "done" /\ policy.MaxAgeDays > 0)
    => \A i \in 1..Len(entries) :
          /\ (/\ Age(entries[i].Metadata.Timestamp) <= policy.MaxAgeDays * SecondsPerDay
              /\ walk[i].after.shouldKeep)
             => entries[i].Metadata.ID \notin DeletedIDs
          /\ ~walk[i].after.shouldKeep => entries[i].Metadata.ID \in DeletedIDs

C6_Witness ==
    /\ rpc = "done"
    /\ policy.MaxAgeDays > 0
    /\ Len(entries) = 2
    /\ Age(entries[1].Metadata.Timestamp) = policy.MaxAgeDays * SecondsPerDay
    /\ Age(entries[2].Metadata.Timestamp) = policy.MaxAgeDays * SecondsPerDay
    /\ walk[1].after.shouldKeep
    /\ ~walk[2].after.shouldKeep
    /\ DeletedIDs = {entries[2].Metadata.ID}

\* C7: for records with distinct ids the result holds each record at most
\* once, returned and not returned records partition the input, and every
\* record not returned was counted within some tier quota during the walk.
C7_DeleteKeepPartition ==
    rpc = "done"
    => /\ \A i, j \in 1..Len(toDelete) : i # j => toDelete[i].ID # toDelete[j].ID
       /\ \A i \in 1..Len(toDelete) : \E j \in 1..Len(backups) : backups[j] = toDelete[i]
       /\ Len(toDelete)
            + Cardinality({i \in 1..Len(backups) : backups[i].ID \notin DeletedIDs})
          = Len(backups)
       /\ \A i \in 1..Len(entries) :
            entries[i].Metadata.ID \notin DeletedIDs => walk[i].after.shouldKeep

C7_Witness ==
    /\ rpc = "done"
    /\ Len(backups) = 3
    /\ policy.MaxAgeDays > 0
    /\ Len(toDelete) = 2
    /\ \E i \in 1..Len(entries) :
          /\ ~walk[i].after.shouldKeep
          /\ Age(entries[i].Metadata.Timestamp) > policy.MaxAgeDays * SecondsPerDay
    /\ \E i \in 1..Len(entries) :
          /\ walk[i].after.shouldKeep
          /\ walk[i].after.monthlyCount > walk[i].before.monthlyCount
          /\ entries[i].Metadata.ID \notin DeletedIDs

\* ---------------------------------------------------------------------------
\* Properties of the engine
\* ---------------------------------------------------------------------------
Count(ns, x) == Cardinality({i \in 1..Len(ns) : ns[i] = x})

\* C1: after a Cleanup in which every storage Delete succeeded, no record of
\* the rotator's delete set is returned by ListBackups or GetBackup, and
\* neither its data artifact nor its <id>.meta.json is left in storage.
C1_CleanupRemovesDeleted ==
    (ret.op = "Cleanup" /\ ret.err = Nil /\ ret.failing = {})
    => \A i \in 1..Len(ret.toDelete) :
          LET id == ret.toDelete[i].ID
          IN /\ MetaPath(id) \notin DOMAIN storage
             /\ StoragePath(cfg, id) \notin DOMAIN storage
             /\ GetBackupOf(storage, id) = NilRecord
             /\ \A bs \in ListBackupsOf(storage, {}) :
                   \A j \in 1..Len(bs) : bs[j].ID # id

\* C2: after a Run that completed and wrote its metadata, the files list of
\* the persisted <id>.meta.json holds the data artifact key and the key
\* <id>.meta.json itself.
C2_PersistedFilesComplete ==
    (ret.op = "Run" /\ ret.err = Nil /\ ret.metaWritten)
    => LET m == ParseMetadata(storage[MetaPath(ret.id)])
       IN /\ StoragePath(cfg, ret.id) \in SeqSet(m.Files)
          /\ MetaPath(ret.id) \in SeqSet(m.Files)

\* C10 as stated: a Run that fails at any stage returns a non-nil result and
\* a non-nil error, result.Error is that error, LastError() is that error
\* afterwards, and exactly one failure notification and no success
\* notification is fired.
C10_Original_FailedRunNotifiesOnce ==
    (ret.op = "Run" /\ ret.fail # "none")
    => /\ ret.result # NilRecord
       /\ ret.err # Nil
       /\ ret.result.Error = ret.err
       /\ lastError = ret.err
       /\ Count(ret.notifications, "failure") = 1
       /\ Count(ret.notifications, "success") = 0

\* C10 (amended): a Run that fails at any stage returns a non-nil result and
\* a non-nil error, result.Error is that error, LastError() is that error
\* afterwards, no success notification is fired, and exactly one failure
\* notification is fired when a notifier is configured (none when the
\* engine has no notifier).
C10_FailedRunReportsError ==
    (ret.op = "Run" /\ ret.fail # "none")
    => /\ ret.result # NilRecord
       /\ ret.err # Nil
       /\ ret.result.Error = ret.err
       /\ lastError = ret.err
       /\ Count(ret.notifications, "failure") = (IF cfg.notifier THEN 1 ELSE 0)
       /\ Count(ret.notifications, "success") = 0

C10_Witness ==
    /\ ret.op = "Run"
    /\ ret.fail = "write"
    /\ cfg.notifier
    /\ nRuns = 2
    /\ lastRun # ZeroTime
    /\ lastError = "failed to write backup to storage"
    /\ ret.notifications = <<"failure">>

\* ---------------------------------------------------------------------------
\* Properties of the scheduler
\* ---------------------------------------------------------------------------
\* C8: at most one Engine.Run executes at a time on the engine of a
\* Scheduler, whatever the cron triggers, RunNow calls and Start/Stop
\* sequences.
C8_AtMostOneRun == Cardinality(ActiveRuns) <= 1

\* C9: no load of lastRun or lastError by the health handler is in progress
\* while a Run is storing those fields; neither side takes a lock, so the
\* two being in progress together is an unsynchronised overlap.
C9_NoUnsynchronisedRead ==
    ~(healthPc \in {"readLastRun", "readLastError"} /\ Storing # {})

\* ---------------------------------------------------------------------------
\* Properties of the engine: what a Run records
\* ---------------------------------------------------------------------------
\* a step of Run
IsRunStep == nRuns' = nRuns + 1

\* C11: every Run that reaches Done sets LastRun to its start time and
\* clears LastError; every failed Run sets LastError to its error and leaves
\* LastRun unchanged; nothing but a Run changes the two. So after any
\* sequence of Runs LastError is nil exactly when the most recent Run reached
\* Done, and LastRun is the start time of the most recent Run that did.
C11_LastRunLastErrorTrackRuns ==
    [][/\ IsRunStep /\ ret'.err = Nil => lastRun' = clock /\ lastError' = Nil
       /\ IsRunStep /\ ret'.err # Nil =>
              lastRun' = lastRun /\ lastError' = ret'.err /\ lastError' # Nil
       /\ ~IsRunStep => lastRun' = lastRun /\ lastError' = lastError]_vars

\* A Run fails a day after one that reached Done: LastRun still is the start
\* of the first, LastError is the error of the second.
C11_Witness ==
    /\ ret.op = "Run"
    /\ nRuns = 2
    /\ ret.err # Nil
    /\ lastError = ret.err
    /\ lastRun = 0
    /\ ret.id >= SecondsPerDay

\* a Run whose post-backup verification failed has just returned
VerifyFailedRun ==
    /\ ret.op = "Run"
    /\ ret.fail = "none"
    /\ cfg.VerifyAfterBackup
    /\ ret.result.VerifyError # Nil

\* the backup of the Run that just returned is not undone and is recorded
BackupKeptAndRecorded ==
    /\ ret.err = Nil
    /\ ~ret.result.Verified
    /\ StoragePath(cfg, ret.id) \in DOMAIN storage
    /\ (ret.metaWritten => MetaPath(ret.id) \in DOMAIN storage)
    /\ lastRun = ret.id
    /\ lastError = Nil

\* C12 as stated: a failed verification leaves the backup in place, the run
\* recorded as complete, and a failure notification fires.
C12_Original_VerifyFailureNotifies ==
    VerifyFailedRun =>
        BackupKeptAndRecorded /\ Count(ret.notifications, "failure") >= 1

\* C12: a failed verification leaves the artifact and the written metadata
\* in storage, Run returns a nil error with Verified false and VerifyError
\* set, LastRun is set and LastError cleared; with a notifier one failure
\* notification fires, followed by the success notification, and without a
\* notifier none fires.
C12_VerifyFailureKeepsBackup ==
    VerifyFailedRun =>
        /\ BackupKeptAndRecorded
        /\ ret.notifications =
              IF cfg.notifier THEN <<"failure", "success">> ELSE <<>>

C12_Witness ==
    /\ VerifyFailedRun
    /\ cfg.notifier
    /\ ret.metaWritten
    /\ MetaPath(ret.id) \in DOMAIN storage
    /\ Count(ret.notifications, "failure") = 1

\* ---------------------------------------------------------------------------
\* Properties of the engine: a backup whose metadata write failed
\* ---------------------------------------------------------------------------
\* the ids of the records the lists of ListBackups hold
ListedIDs(st) == {ParseMetadata(st[k]).ID : k \in {x \in MetaKeys(st) : IsJSON(st[x])}}

\* the data objects that no listed record names in its files
OrphanArtifacts(st) ==
    {k \in DOMAIN st :
        /\ ~HasMetaSuffix(k)
        /\ \A x \in MetaKeys(st) :
              IsJSON(st[x]) => k \notin SeqSet(ParseMetadata(st[x]).Files)}

\* C13 as stated: after a Run that succeeded without writing its metadata,
\* the artifact is in storage and no backup of its id is listed or returned
\* by GetBackup.
C13_Original_OrphanInvisible ==
    (ret.op = "Run" /\ ret.fail = "none" /\ ~ret.metaWritten) =>
        /\ ret.err = Nil
        /\ StoragePath(cfg, ret.id) \in DOMAIN storage
        /\ GetBackupOf(storage, ret.id) = NilRecord
        /\ ret.id \notin ListedIDs(storage)

\* C13: a Run whose metadata write fails, when no readable record of the same
\* id (a Run started in the same second) is in storage, returns success,
\* leaves the artifact in storage and leaves its id unlisted and unknown to
\* GetBackup; and no step, Cleanup included, removes a data object that no
\* listed record names.
C13_OrphanInvisibleUnlessIdReused ==
    [][/\ (/\ IsRunStep
            /\ ret'.fail = "none"
            /\ ~ret'.metaWritten
            /\ GetBackupOf(storage, clock) = NilRecord)
           => /\ ret'.err = Nil
              /\ StoragePath(cfg, clock) \in DOMAIN storage'
              /\ GetBackupOf(storage', clock) = NilRecord
              /\ clock \notin ListedIDs(storage')
       /\ OrphanArtifacts(storage) \subseteq DOMAIN storage']_vars

\* A Cleanup deleted the record of a later day and left the artifact of a
\* Run whose metadata was not written.
C13_Witness ==
    /\ ret.op = "Cleanup"
    /\ ret.deletedCount = 1
    /\ \E k \in OrphanArtifacts(storage) :
          /\ GetBackupOf(storage, k.id) = NilRecord
          /\ k.id \notin ListedIDs(storage)
          /\ k.id # ret.toDelete[1].ID

\* ---------------------------------------------------------------------------
\* Properties of the engine: retries
\* ---------------------------------------------------------------------------
\* C14: a Run that failed at connecting or dumping with a transient error
\* (connection refused, which isRetryable accepts) tried the step more than
\* once, as the retry policy of DefaultRetryConfig allows.
C14_TransientFailureRetried ==
    (/\ ret.op = "Run"
     /\ ret.fail \in {"connect", "dump"}
     /\ isRetryable(Wrap(<<"f", "a", "i", "l", "e", "d", " ", "t", "o", " ", "c", "o", "n", "n", "e", "c", "t", " ", "t", "o", " ", "d", "a", "t", "a", "b", "a", "s", "e">>, ErrRefused))
     /\ DefaultRetryConfig.MaxAttempts > 1)
    => ret.attempts > 1

\* ---------------------------------------------------------------------------
\* Properties of the retry wrapper
\* ---------------------------------------------------------------------------
Calls == Len(retry.calls)

AllRetryable(n) == \A i \in 1..n : isRetryable(retry.calls[i])

NeverCancelled == retry.cancelAt = NoCancel

\* C15: with a context never cancelled, WithRetry goes on invoking while the
\* invocations fail with retryable errors and fewer than maxAttempts were
\* made, and the invocation that succeeds is the last: its success is
\* returned with a nil error, after exactly that many invocations.
C15_SuccessAfterRetries ==
    /\ \A i \in 1..Calls :
          retry.calls[i] = NilRecord =>
             /\ i = Calls
             /\ i <= retry.cfg.MaxAttempts
             /\ AllRetryable(i - 1)
             /\ retry.pc = "done"
             /\ retry.ret = Return("result", NilRecord)
    /\ (retry.pc = "done" /\ NeverCancelled /\ AllRetryable(Calls))
          => Calls >= retry.cfg.MaxAttempts

\* two retryable failures, then success at the third of three attempts
C15_Witness ==
    /\ retry.pc = "done"
    /\ NeverCancelled
    /\ retry.cfg.MaxAttempts = 3
    /\ Calls = 3
    /\ AllRetryable(2)
    /\ retry.calls[3] = NilRecord
    /\ retry.ret = Return("result", NilRecord)

\* C16: the operation is never invoked more than maxAttempts times; when
\* maxAttempts invocations all failed with retryable errors WithRetry
\* returns the error of the last one, and it waited after every attempt but
\* the last.
C16_AttemptsBounded ==
    /\ Calls <= IF retry.cfg.MaxAttempts > 0 THEN retry.cfg.MaxAttempts ELSE 0
    /\ Len(retry.waits) <= Calls
    /\ (Calls > 0 /\ Calls = retry.cfg.MaxAttempts /\ AllRetryable(Calls))
          => /\ Len(retry.waits) = Calls - 1
             /\ retry.pc \in {"loop", "done"}
             /\ retry.pc = "done" => retry.ret = Return("zero", retry.calls[Calls])

C16_Witness ==
    /\ retry.pc = "done"
    /\ retry.cfg.MaxAttempts = 3
    /\ Calls = 3
    /\ AllRetryable(3)
    /\ retry.calls[3] # retry.calls[1]
    /\ retry.ret = Return("zero", retry.calls[3])
    /\ Len(retry.waits) = 2

\* C17: a credential error in any letter case and a context error, bare or
\* wrapped, are not retryable, while a timeout is; and an invocation that
\* returns a non-retryable error is the last: WithRetry returns that error,
\* with no wait after it.
C17_NonRetryableReturnsAtOnce ==
    /\ ~isRetryable(ErrAuth)
    /\ ~isRetryable(ErrWrappedCanceled)
    /\ ~isRetryable(DeadlineExceeded)
    /\ ~isRetryable(Canceled)
    /\ \A i \in 1..Len(nonRetryableErrors) : ~isRetryable(NewError(nonRetryableErrors[i]))
    /\ isRetryable(ErrTimeout)
    /\ isRetryable(ErrRefused)
    /\ \A i \in 1..Calls :
          (retry.calls[i] # NilRecord /\ ~isRetryable(retry.calls[i])) =>
             /\ i = Calls
             /\ retry.pc = "done"
             /\ retry.ret = Return("zero", retry.calls[i])
             /\ Len(retry.waits) = i - 1

\* a credential error at the first of three allowed attempts
C17_Witness ==
    /\ retry.pc = "done"
    /\ retry.cfg.MaxAttempts = 3
    /\ retry.calls = <<ErrAuth>>
    /\ retry.ret = Return("zero", ErrAuth)
    /\ retry.waits = <<>>

\* C18: after a cancellation during a wait the operation is not invoked
\* again, a wait longer than zero is not completed, and what WithRetry
\* returns is the error of the context; with a context cancelled on entry
\* the operation is never invoked.
C18_CancelledWaitReturns ==
    /\ retry.cancelAt.pc = "wait" =>
          /\ Calls = retry.cancelAt.calls
          /\ retry.waits[Len(retry.waits)] > 0 =>
                retry.elapsed = retry.cancelAt.elapsed /\ retry.pc \in {"wait", "done"}
          /\ retry.pc = "done" => retry.ret = Return("zero", retry.ctxErr)
    /\ retry.cancelAt.pc = "entry" =>
          /\ Calls = 0
          /\ (retry.pc = "done" /\ retry.cfg.MaxAttempts >= 1)
                => retry.ret = Return("zero", retry.ctxErr)

\* cancelled in the wait after the second of three attempts
C18_Witness ==
    /\ retry.cancelAt.pc = "wait"
    /\ retry.pc = "done"
    /\ retry.cfg.MaxAttempts = 3
    /\ Calls = 2
    /\ retry.waits[2] > 0
    /\ retry.elapsed = 1
    /\ retry.ret = Return("zero", Canceled)

\* C19: no wait between attempts is longer than maxWait.
C19_WaitsCapped ==
    \A k \in 1..Len(retry.waits) : retry.waits[k] <= retry.cfg.MaxWait

\* ---------------------------------------------------------------------------
\* Properties of the validator
\* ---------------------------------------------------------------------------
\* the record names no data file: no file, or only its own metadata object
NoDataFileListed(m) == \A i \in 1..Len(m.Files) : m.Files[i] = MetaPath(m.ID)

\* C20: Validate on a record whose files list is empty or holds only the
\* record's own metadata key returns, with no error, a result with Valid
\* false and a non-empty Errors list, and makes no storage call.
C20_NoDataFileFailsClosed ==
    (validation.pc = "done" /\ NoDataFileListed(validation.metadata)) =>
        /\ validation.err = Nil
        /\ validation.result # NilRecord
        /\ ~validation.result.Valid
        /\ validation.result.Errors # <<>>
        /\ validation.calls = <<>>

\* a record listing its own metadata key twice, with the data object stored
C20_Witness ==
    /\ validation.pc = "done"
    /\ validation.metadata.Files = <<MetaPath(0), MetaPath(0)>>
    /\ Key(0, ".sql") \in DOMAIN validation.store
    /\ ~validation.result.Valid
    /\ validation.result.Errors = <<"backup file not found in metadata">>
    /\ validation.calls = <<>>

\* the data file Validate looks for, and the storage calls it made
DataFile == FirstDataFile(validation.metadata)

DataFileStored == DataFile \in DOMAIN validation.store

HasCall(op) == \E i \in 1..Len(validation.calls) : validation.calls[i][1] = op

Reported(msg) ==
    \E i \in 1..Len(validation.result.Errors) : validation.result.Errors[i] = msg

\* C21: Validate stops early only when the existence check fails: for an
\* absent data file the result has Valid false and FileExists false and no
\* Size or Read call was made; for a stored data file the size is read, the
\* file is read for its checksum whenever the record holds one, also after
\* a size mismatch, and each mismatch found has its message in Errors.
C21_OnlyExistenceShortCircuits ==
    (validation.pc = "done" /\ DataFile # NoKey /\ ~validation.faults.existsErr) =>
        /\ ~DataFileStored =>
              /\ validation.err = Nil
              /\ ~validation.result.Valid
              /\ ~validation.result.FileExists
              /\ Reported("backup file does not exist")
              /\ ~HasCall("Size") /\ ~HasCall("Read")
        /\ DataFileStored =>
              /\ HasCall("Size")
              /\ (~validation.faults.sizeErr /\ validation.metadata.Checksum # "")
                    => HasCall("Read")
              /\ validation.err = Nil =>
                    /\ validation.result.FileExists
                    /\ validation.store[DataFile].size # validation.metadata.CompressedSize
                          => (~validation.result.SizeMatch /\ Reported("size mismatch"))
                    /\ (/\ validation.metadata.Checksum # ""
                        /\ ~validation.faults.checksumErr
                        /\ validation.store[DataFile].checksum # validation.metadata.Checksum)
                          => (~validation.result.ChecksumOK /\ Reported("checksum mismatch"))

\* a stored data file with the wrong size and the wrong checksum: both
\* checks ran and both messages are reported
C21_Witness ==
    /\ validation.pc = "done"
    /\ DataFile = Key(0, ".sql")
    /\ DataFileStored
    /\ validation.err = Nil
    /\ validation.store[DataFile].size # validation.metadata.CompressedSize
    /\ validation.calls = <<<<"Exists", DataFile>>, <<"Size", DataFile>>, <<"Read", DataFile>>>>
    /\ validation.result.Errors = <<"size mismatch", "checksum mismatch">>
    /\ ~validation.result.Valid

\* C22: in every result Validate returns for a record that names a data
\* file, Valid is true exactly when FileExists, SizeMatch and ChecksumOK
\* are all true, also when the checksum of the downloaded file cannot be
\* computed.
C22_ValidIsConjunction ==
    (validation.pc = "done" /\ DataFile # NoKey /\ validation.err = Nil) =>
        (validation.result.Valid
            <=> (/\ validation.result.FileExists
                 /\ validation.result.SizeMatch
                 /\ validation.result.ChecksumOK))

\* the record agrees with the object stored under its data file
RecordMatches(m, st) ==
    /\ FirstDataFile(m) \in DOMAIN st
    /\ st[FirstDataFile(m)].size = m.CompressedSize
    /\ st[FirstDataFile(m)].checksum = m.Checksum

NoFault == \A x \in DOMAIN validation.faults : ~validation.faults[x]

AllChecksPass(r) == r.Valid /\ r.FileExists /\ r.SizeMatch /\ r.ChecksumOK

\* C23: when no call fails, Validate on a record carrying the size and the
\* sha256 of the object stored under its data file returns Valid,
\* FileExists, SizeMatch and ChecksumOK all true; once the stored content
\* was changed and the record was not, it returns ChecksumOK false and
\* Valid false.
C23_ValidatorRoundTrip ==
    (validation.pc = "done" /\ NoFault) =>
        /\ RecordMatches(validation.metadata, validation.store) =>
              (validation.err = Nil /\ AllChecksPass(validation.result))
        /\ ("first" \in DOMAIN validation
                /\ RecordMatches(validation.metadata, validation.first.store)) =>
              /\ AllChecksPass(validation.first.result)
              /\ validation.err = Nil
              /\ ~validation.result.ChecksumOK
              /\ ~validation.result.Valid

\* validated and valid, then overwritten with content of the same size, then
\* validated again
C23_Witness ==
    /\ validation.pc = "done"
    /\ NoFault
    /\ "first" \in DOMAIN validation
    /\ RecordMatches(validation.metadata, validation.first.store)
    /\ AllChecksPass(validation.first.result)
    /\ validation.store[DataFile].size = validation.metadata.CompressedSize
    /\ validation.result.SizeMatch
    /\ ~validation.result.ChecksumOK
    /\ validation.result.Errors = <<"checksum mismatch">>

\* C24: for a record with an empty checksum Validate never reads the data
\* file, sets ChecksumOK, and returns a Valid result whenever the file
\* exists and its size is the recorded one.
C24_EmptyChecksumPassesVacuously ==
    (validation.pc = "done" /\ DataFile # NoKey /\ validation.metadata.Checksum = "") =>
        /\ ~HasCall("Read")
        /\ (validation.err = Nil /\ DataFileStored) =>
              /\ validation.result.ChecksumOK
              /\ validation.store[DataFile].size = validation.metadata.CompressedSize
                    => validation.result.Valid

C24_Witness ==
    /\ validation.pc = "done"
    /\ validation.metadata.Checksum = ""
    /\ DataFile = Key(0, ".sql")
    /\ DataFileStored
    /\ validation.err = Nil
    /\ validation.store[DataFile].size = validation.metadata.CompressedSize
    /\ validation.calls = <<<<"Exists", DataFile>>, <<"Size", DataFile>>>>
    /\ validation.result.ChecksumOK
    /\ validation.result.Valid

\* ---------------------------------------------------------------------------
\* Properties of Cleanup under failing deletes
\* ---------------------------------------------------------------------------
\* C25: when Delete fails on a file during Cleanup, every other file of
\* that record and every file of the other records of the delete set is
\* still deleted, every record of the delete set is counted, and Cleanup
\* returns a nil error.
C25_FailedDeleteDoesNotStopCleanup ==
    (ret.op = "Cleanup" /\ ret.failing # {}) =>
        /\ ret.err = Nil
        /\ ret.deletedCount = Len(ret.toDelete)
        /\ \A f \in SeqSet(FilesOf(ret.toDelete)) \ ret.failing : f \notin DOMAIN storage

\* two records to delete, two files each; the Delete of the first file of
\* the first record failed, the three other files are gone
C25_Witness ==
    /\ ret.op = "Cleanup"
    /\ ret.err = Nil
    /\ Len(ret.toDelete) = 2
    /\ Len(ret.toDelete[1].Files) = 2
    /\ ret.toDelete[1].Files[1] # ret.toDelete[1].Files[2]
    /\ ret.failing = {ret.toDelete[1].Files[1]}
    /\ ret.toDelete[1].Files[1] \in DOMAIN storage
    /\ ret.toDelete[1].Files[2] \notin DOMAIN storage
    /\ DOMAIN storage = ret.failing
    /\ ret.deletedCount = 2

\* ---------------------------------------------------------------------------
\* Properties of the scheduler: Start and Stop
\* ---------------------------------------------------------------------------
\* what only Start and Stop write of the scheduler and its cron
ctlVars == <<running, cronEntries, cronRunning, ctlPc>>

\* C26: over any sequence of Start and Stop calls, a Start on a running
\* scheduler and a Stop on a stopped one change nothing and return (Start
\* goes on to AddFunc, its only error return, and Stop goes on to stop the
\* cron, only from the opposite state); running is true when a Start whose
\* AddFunc succeeded returns and false when a Stop returns.
C26_StartStopIdempotent ==
    [][ /\ (ctlPc' = "startAdd" /\ ctlPc = "idle") => (~running /\ running')
        /\ (ctlPc' = "stopWait" /\ ctlPc = "idle") => running
        /\ (ctlPc = "idle" /\ ctlPc' = "idle") => UNCHANGED ctlVars
        /\ (ctlPc = "startAdd" /\ ctlPc' = "idle" /\ scheduleOK) => running'
        /\ (ctlPc = "stopWait" /\ ctlPc' = "idle") => ~running'
      ]_vars

\* two successful Starts, each followed by a Stop that returned
C26_Witness ==
    /\ ctlPc = "idle"
    /\ mu = "none"
    /\ ~running
    /\ ~cronRunning
    /\ cronEntries = 2

\* ---------------------------------------------------------------------------
\* Properties of the engine: the timestamp of a record
\* ---------------------------------------------------------------------------
\* the record a completed Run left under <id>.meta.json
PersistedRecord == ParseMetadata(storage[MetaPath(ret.id)])

\* C27: the timestamp of the record a Run persisted is the instant the Run
\* started: the one returned in the result, the one the id is generated
\* from and the one the retention hint is computed from.
C27_TimestampIsStartTime ==
    (ret.op = "Run" /\ ret.err = Nil /\ ret.metaWritten) =>
        /\ PersistedRecord.Timestamp = ret.result.Timestamp
        /\ GenerateBackupID(PersistedRecord.Timestamp) = PersistedRecord.ID
        /\ PersistedRecord.KeepUntil
             = GetRetentionInfo(policy, PersistedRecord.Timestamp).keepUntil
        /\ PersistedRecord.Policy
             = GetRetentionInfo(policy, PersistedRecord.Timestamp).policy

\* ---------------------------------------------------------------------------
\* Properties of one Run followed statement by statement
\* ---------------------------------------------------------------------------
\* the order in which the stages of a Run may happen
StageOrder ==
    <<"driver", "connect", "tmpdir", "create", "dump", "stat", "compress", "checksum",
      "open", "write", "tojson", "metawrite", "verify", "done", "failed">>

Rank(stage) == CHOOSE i \in 1..Len(StageOrder) : StageOrder[i] = stage

Did(stage) == \E i \in 1..Len(run.stages) : run.stages[i] = stage

\* the stage was reached and was not the one that failed
Succeeded(stage) == Did(stage) /\ run.o.fail # stage

ArtifactStored == StoragePath(cfg, run.id) \in DOMAIN storage

MetadataStored == MetaPath(run.id) \in DOMAIN storage

\* C28: in every Run the stages happen only in the order connect, dump,
\* compress (under gzip only), checksum, artifact write, metadata write,
\* verify (if configured only), done: the artifact is in storage only after
\* dump and compression succeeded, the metadata only after the artifact
\* write succeeded, verification runs only after the persist step, and a
\* Run that returned ended in exactly one of done, with a nil error, or
\* failed, with an error.
C28_StagesInOrder ==
    run.pc # "idle" =>
        /\ \A i, j \in 1..Len(run.stages) :
              i < j => Rank(run.stages[i]) < Rank(run.stages[j])
        /\ Did("compress") => cfg.Compression = "gzip"
        /\ Did("verify") => cfg.VerifyAfterBackup
        /\ ArtifactStored =>
              /\ Succeeded("connect") /\ Succeeded("dump") /\ Did("checksum")
              /\ cfg.Compression = "gzip" => Succeeded("compress")
        /\ MetadataStored => (ArtifactStored /\ Succeeded("write"))
        /\ (Did("verify") \/ run.pc = "verifying") => (Succeeded("write") /\ Did("tojson"))
        /\ Did("done") =>
              /\ Succeeded("write")
              /\ cfg.VerifyAfterBackup => Did("verify")
        /\ run.pc # "returned" => (~Did("done") /\ ~Did("failed"))
        /\ run.pc = "returned" =>
              /\ Did("done") # Did("failed")
              /\ Did("done") <=> run.err = Nil
              /\ run.stages[Len(run.stages)] \in {"done", "failed"}

\* a compressed, verified Run that went through every stage and returned
C28_Witness ==
    /\ run.pc = "returned"
    /\ run.err = Nil
    /\ run.stages = <<"driver", "connect", "tmpdir", "create", "dump", "stat", "compress",
                      "checksum", "open", "write", "tojson", "metawrite", "verify", "done">>
    /\ ArtifactStored
    /\ MetadataStored

\* C29: when Run returns after it created the temporary directory, whether
\* it succeeded or failed at a later stage, the directory and every
\* temporary file of the run are gone, no file handle is left open and the
\* connection opened by Connect is closed.
C29_TempRemovedOnEveryExit ==
    (run.pc = "returned" /\ Succeeded("tmpdir")) =>
        /\ run.tmpDir = "removed"
        /\ run.tmpFiles = {}
        /\ run.osTmp = {}
        /\ run.handles = {}
        /\ run.conn = "closed"

\* a Run that failed writing the artifact, with the dump, the compressed
\* file and the open handle on it behind it
C29_Witness ==
    /\ run.pc = "returned"
    /\ run.o.fail = "write"
    /\ Did("compress")
    /\ Did("open")
    /\ run.err = ErrorOf("write")
    /\ run.tmpDir = "removed"
    /\ run.tmpFiles = {}
    /\ run.handles = {}
    /\ run.conn = "closed"

\* The storage of the engine as the validator sees it: under the key of an
\* artifact, its size and the sha256 of its content. A whole artifact has
\* the size Run recorded for it; a truncated one is shorter.
ValidatorView(st) ==
    [k \in {x \in DOMAIN st : "artifact" \in DOMAIN st[x]} |->
        [size |-> IF st[k].whole THEN NewBackupMetadata(k.id, 0).CompressedSize ELSE -1,
         checksum |-> "sha256"]]

NoValidatorFault ==
    [existsErr |-> FALSE, sizeErr |-> FALSE, readErr |-> FALSE,
     tmpErr |-> FALSE, checksumErr |-> FALSE]

\* C30: a Run whose checksum computation fails, and no other stage, goes on:
\* it stores the artifact, persists a record with an empty checksum unless
\* the metadata cannot be written, and returns a nil error; Validate on the
\* persisted record sets ChecksumOK without reading the artifact.
C30_ChecksumFailureNotFatal ==
    (run.pc = "returned" /\ run.o.checksumErr /\ run.o.fail = "none") =>
        /\ run.err = Nil
        /\ Did("done")
        /\ ArtifactStored
        /\ storage[StoragePath(cfg, run.id)].whole
        /\ (~run.o.jsonErr /\ ~run.o.metaWriteErr) =>
              /\ MetadataStored
              /\ LET rec == ParseMetadata(storage[MetaPath(run.id)])
                     v == Validate(rec, ValidatorView(storage), NoValidatorFault)
                 IN /\ rec.Checksum = ""
                    /\ v.err = Nil
                    /\ v.result.ChecksumOK
                    /\ v.result.Valid
                    /\ v.calls = <<<<"Exists", StoragePath(cfg, run.id)>>,
                                   <<"Size", StoragePath(cfg, run.id)>>>>

C30_Witness ==
    /\ run.pc = "returned"
    /\ run.o.checksumErr
    /\ run.o.fail = "none"
    /\ run.checksum = ""
    /\ run.err = Nil
    /\ ArtifactStored
    /\ MetadataStored
    /\ IsJSON(storage[MetaPath(run.id)])
    /\ ParseMetadata(storage[MetaPath(run.id)]).Checksum = ""

\* C31: Scheduler.Stop eventually returns in every interleaving, also when it
\* is called while a runBackup is in progress: once Stop holds the mutex and
\* waits for the cron's jobs, it eventually releases the mutex and returns.
C31_StopEventuallyReturns == (ctlPc = "stopWait") ~> (ctlPc = "idle")

\* ---------------------------------------------------------------------------
\* Properties of Cleanup as a step of the engine
\* ---------------------------------------------------------------------------
\* The records ListBackups returns for a storage, as a set
ListedRecords(st) == UNION {SeqSet(bs) : bs \in ListBackupsOf(st, {})}

Newest(bs) == {b \in bs : \A c \in bs : c.Timestamp <= b.Timestamp}

\* A step of the engine that is a Cleanup returning a nil error
CleanupStep ==
    /\ ret'.op = "Cleanup"
    /\ ret'.err = Nil
    /\ clock' = clock
    /\ nRuns' = nRuns

C33_NeverFailureAndSuccess ==
    run.pc # "idle" =>
        ~("failure" \in SeqSet(run.notifications) /\ "success" \in SeqSet(run.notifications))

\* ---------------------------------------------------------------------------
\* Properties of repeated Cleanup
\* ---------------------------------------------------------------------------
\* The counts a Cleanup called on storage st at time t can return when it
\* lists st without an error: the length of the rotator's delete set
CleanupCounts(st, p, t) ==
    {Len(del) : del \in UNION {DetermineBackupsToDelete(bs, p, t) : bs \in ListBackupsOf(st, {})}}

\* C34: with MaxAgeDays = 0, after a Cleanup all of whose deletes succeeded,
\* a Cleanup called next, with nothing changed in between, deletes nothing
\* and returns 0.
C34_CleanupIdempotent ==
    (ret.op = "Cleanup" /\ ret.err = Nil /\ ret.failing = {} /\ policy.MaxAgeDays = 0) =>
        CleanupCounts(storage, policy, clock) = {0}

\* ---------------------------------------------------------------------------
\* Properties of what Cleanup removes
\* ---------------------------------------------------------------------------
\* The objects of a record in a storage: its artifact and its metadata
ObjectsOf(st, b) == {k \in DOMAIN st : k.id = b.ID}

\* C35: a Cleanup removes only keys listed in the files of the records of
\* the rotator's delete set, and every object of a listed record that is not
\* in the delete set, its artifact and its metadata, is in storage afterwards
\* as it was before.
C35_CleanupDeletesOnlyListedFiles ==
    [][CleanupStep =>
          /\ (DOMAIN storage) \ (DOMAIN storage') \subseteq SeqSet(FilesOf(ret'.toDelete))
          /\ ret'.failing \subseteq SeqSet(FilesOf(ret'.toDelete))
          /\ DOMAIN storage' \subseteq DOMAIN storage
          /\ \A b \in ListedRecords(storage) \ SeqSet(ret'.toDelete) :
                \A k \in ObjectsOf(storage, b) :
                    k \in DOMAIN storage' /\ storage'[k] = storage[k]]_vars

\* of two backups with two files each the older was deleted, artifact and
\* metadata, and both objects of the newer one are still there
C35_Witness ==
    /\ ret.op = "Cleanup"
    /\ ret.err = Nil
    /\ ret.failing = {}
    /\ Len(ret.toDelete) = 1
    /\ SeqSet(ret.toDelete[1].Files) = {Key(0, ".sql"), MetaPath(0)}
    /\ DOMAIN storage = {Key(1, ".sql"), MetaPath(1)}
    /\ Cardinality(ListedRecords(storage)) = 1

\* ---------------------------------------------------------------------------
\* Properties of a failed Run as a step of the engine
\* ---------------------------------------------------------------------------
\* The stages of Run before the artifact write
PreWriteStages == FailStages \ {"write"}

\* A step of the engine that is a Run
RunStep == ret'.op = "Run" /\ nRuns' = nRuns + 1

\* C36: a Run that fails at a stage before the artifact write (driver,
\* connect, temporary directory, dump, stat, compression, opening the
\* artifact) leaves storage as it was: nothing written, nothing removed.
C36_EarlyFailureLeavesStorage ==
    [][(RunStep /\ ret'.fail \in PreWriteStages) =>
          /\ ret'.err # Nil
          /\ storage' = storage]_vars

\* a second Run failed on opening the artifact; the backup of the first
\* Run, artifact and metadata, is in storage and nothing else is
C36_Witness ==
    /\ ret.op = "Run"
    /\ ret.fail = "open"
    /\ ret.err # Nil
    /\ nRuns = 2
    /\ clock = 1
    /\ DOMAIN storage = {StoragePath(cfg, 0), MetaPath(0)}

\* ---------------------------------------------------------------------------
\* Properties of the error WithRetry returns
\* ---------------------------------------------------------------------------
\* C37: WithRetry returns a nil error only if some invocation of the
\* operation returned a nil error, for every MaxAttempts.
C37_NilErrorOnlyAfterSuccess ==
    (retry.pc = "done" /\ retry.ret.err = NilRecord) =>
        \E i \in 1..Len(retry.calls) : retry.calls[i] = NilRecord

\* ---------------------------------------------------------------------------
\* Properties of a Start that returns an error
\* ---------------------------------------------------------------------------
\* C38: when Start returns the error of a rejected schedule, the scheduler
\* is as it was before the call: IsRunning() is false, so that a later Start
\* is not skipped as already running.
C38_FailedStartLeavesNotRunning ==
    [][(ctlPc = "startAdd" /\ ctlPc' = "idle" /\ ~scheduleOK) => ~running']_vars

\* ---------------------------------------------------------------------------
\* Properties of the errors a validation result lists
\* ---------------------------------------------------------------------------
ValidMatchesErrors(r) == (~r.Valid) <=> (r.Errors # <<>>)

\* C39: in every result Validate returns, Valid is false exactly when the
\* Errors list is not empty.
C39_InvalidIffErrors ==
    /\ (validation.pc = "done" /\ validation.err = Nil) =>
           ValidMatchesErrors(validation.result)
    /\ ("first" \in DOMAIN validation /\ validation.first.err = Nil) =>
           ValidMatchesErrors(validation.first.result)

\* the checksum of the downloaded file could not be computed: the result
\* says neither ChecksumOK nor invalid, and lists no error
C39_Witness ==
    /\ validation.pc = "done"
    /\ validation.err = Nil
    /\ validation.faults.checksumErr
    /\ validation.result.FileExists
    /\ validation.result.SizeMatch
    /\ ~validation.result.ChecksumOK
    /\ validation.result.Valid
    /\ validation.result.Errors = <<>>

====
